---- MODULE Spec2Model ----
(***************************************************************************)
(* Job application tracker: the e-mail classifier and the field extractor  *)
(* of src/services/parser.service.ts (the ATS-aware rule set, lines 1 to   *)
(* 495), modelled on character strings.  Texts are TLA+ strings; the       *)
(* regular expressions of the source are data (trees of the nodes below)   *)
(* run by a backtracking matcher with the priorities of the JavaScript     *)
(* engine: leftmost start, alternatives in order, greedy or lazy           *)
(* repetition.  Strings are ASCII: the en dash that some character classes *)
(* of the source list cannot be written here and is left out of them.      *)
(***************************************************************************)
EXTENDS Integers, Sequences, FiniteSets, TLC

\* ------------------------------------------------------------------------
\* Characters
\* ------------------------------------------------------------------------
LowerAlpha == "abcdefghijklmnopqrstuvwxyz"
UpperAlpha == "ABCDEFGHIJKLMNOPQRSTUVWXYZ"
DigitChars == "0123456789"

CharsOf(str) == { SubSeq(str, i, i) : i \in 1..Len(str) }

Lowers == CharsOf(LowerAlpha)
Uppers == CharsOf(UpperAlpha)
Digits == CharsOf(DigitChars)
Letters == Lowers \cup Uppers
\* \w and \s of the regular expressions
WordChars == Letters \cup Digits \cup {"_"}
SpaceChars == {" ", "\n", "\t", "\r"}

ToLowerTable == [ c \in Uppers |->
    LET i == CHOOSE j \in 1..26 : SubSeq(UpperAlpha, j, j) = c
    IN  SubSeq(LowerAlpha, i, i) ]
ToUpperTable == [ c \in Lowers |->
    LET i == CHOOSE j \in 1..26 : SubSeq(LowerAlpha, j, j) = c
    IN  SubSeq(UpperAlpha, i, i) ]

ToLowerCh(c) == IF c \in Uppers THEN ToLowerTable[c] ELSE c
ToUpperCh(c) == IF c \in Lowers THEN ToUpperTable[c] ELSE c

\* F applied to the value v: LET x == v IN F(x), with v written once
With(v, F(_)) == F(v)

MinOf(S) == CHOOSE x \in S : \A y \in S : x <= y
MaxOf(S) == CHOOSE x \in S : \A y \in S : y <= x

\* String.prototype.toLowerCase (the string is halved to keep the recursion
\* shallow)
RECURSIVE toLowerCase(_)
toLowerCase(str) ==
    IF Len(str) = 0 THEN ""
    ELSE IF Len(str) = 1 THEN ToLowerCh(str)
    ELSE LET h == Len(str) \div 2
         IN  toLowerCase(SubSeq(str, 1, h)) \o toLowerCase(SubSeq(str, h + 1, Len(str)))

\* String.prototype.trim
trim(str) ==
    LET ink == { i \in 1..Len(str) : SubSeq(str, i, i) \notin SpaceChars }
    IN  IF ink = {} THEN "" ELSE SubSeq(str, MinOf(ink), MaxOf(ink))

\* String.prototype.slice(0, n) and slice(n)
sliceTo(str, n) == SubSeq(str, 1, IF n < Len(str) THEN n ELSE Len(str))
sliceFrom(str, n) == SubSeq(str, n + 1, Len(str))

\* String.prototype.includes
includes(str, sub) ==
    \E i \in 1..(Len(str) - Len(sub) + 1) : SubSeq(str, i, i + Len(sub) - 1) = sub

\* String.prototype.replace(/\s+/g, " "): every run of white space becomes
\* one space
RECURSIVE collapseRange(_, _, _)
collapseRange(str, i, j) ==
    IF i > j THEN ""
    ELSE IF i = j
    THEN IF SubSeq(str, i, i) \notin SpaceChars THEN SubSeq(str, i, i)
         ELSE IF i > 1 /\ SubSeq(str, i - 1, i - 1) \in SpaceChars THEN "" ELSE " "
    ELSE LET h == (i + j) \div 2
         IN  collapseRange(str, i, h) \o collapseRange(str, h + 1, j)
collapseWhitespace(str) == collapseRange(str, 1, Len(str))

\* ------------------------------------------------------------------------
\* Regular expressions
\* ------------------------------------------------------------------------
Inf == 0 - 1

RLit(s) == [t |-> "lit", s |-> s]                 \* literal text
RSet(cs) == [t |-> "set", cs |-> cs]              \* [...]
RNot(cs) == [t |-> "not", cs |-> cs]              \* [^...]
RAny == [t |-> "any"]                             \* .
RSeq(rs) == [t |-> "seq", rs |-> rs]              \* r1 r2 ...
RAlt(rs) == [t |-> "alt", rs |-> rs]              \* r1|r2|...
RRep(r, lo, hi, lazy) ==
    [t |-> "rep", r |-> r, lo |-> lo, hi |-> hi, lazy |-> lazy]
RStar(r) == RRep(r, 0, Inf, FALSE)                \* r*
RPlus(r) == RRep(r, 1, Inf, FALSE)                \* r+
RPlusLazy(r) == RRep(r, 1, Inf, TRUE)             \* r+?
ROpt(r) == RRep(r, 0, 1, FALSE)                   \* r?
RCap(r) == [t |-> "cap", r |-> r]                 \* ( r ), group 1
RBol == [t |-> "bol"]                             \* ^
REol == [t |-> "eol"]                             \* $
RWb == [t |-> "wb"]                               \* \b
RCapOpen == [t |-> "co"]
RCapClose == [t |-> "cc"]

\* The characters (in lower case) a match of r can begin with: any is TRUE
\* when every character can begin one, nullable when r can match the empty
\* text.  The search uses it to skip the start positions where no match can
\* begin.
RECURSIVE RxFirst(_)
RECURSIVE RxFirstSeq(_)
RECURSIVE RxFirstAlt(_)
RxFirst(r) ==
    CASE r.t = "lit" ->
           IF r.s = "" THEN [any |-> FALSE, cs |-> {}, nullable |-> TRUE]
           ELSE [any |-> FALSE, cs |-> {ToLowerCh(SubSeq(r.s, 1, 1))}, nullable |-> FALSE]
      [] r.t = "set" ->
           [any |-> FALSE, cs |-> {ToLowerCh(ch) : ch \in r.cs}, nullable |-> FALSE]
      [] r.t \in {"not", "any"} -> [any |-> TRUE, cs |-> {}, nullable |-> FALSE]
      [] r.t = "seq" -> RxFirstSeq(r.rs)
      [] r.t = "alt" -> RxFirstAlt(r.rs)
      [] r.t = "rep" ->
           LET a == RxFirst(r.r)
           IN  [a EXCEPT !.nullable = a.nullable \/ r.lo = 0]
      [] r.t = "cap" -> RxFirst(r.r)
      [] OTHER -> [any |-> FALSE, cs |-> {}, nullable |-> TRUE]
RxFirstSeq(rs) ==
    IF Len(rs) = 0 THEN [any |-> FALSE, cs |-> {}, nullable |-> TRUE]
    ELSE LET a == RxFirst(Head(rs))
             b == RxFirstSeq(Tail(rs))
         IN  IF a.nullable
             THEN [any |-> a.any \/ b.any, cs |-> a.cs \cup b.cs, nullable |-> b.nullable]
             ELSE a
RxFirstAlt(rs) ==
    IF Len(rs) = 0 THEN [any |-> FALSE, cs |-> {}, nullable |-> FALSE]
    ELSE LET a == RxFirst(Head(rs))
             b == RxFirstAlt(Tail(rs))
         IN  [any |-> a.any \/ b.any, cs |-> a.cs \cup b.cs,
              nullable |-> a.nullable \/ b.nullable]

\* does every match of r begin at the start of the text or of a line?
RECURSIVE RxAnchored(_)
RxAnchored(r) ==
    \/ r.t = "bol"
    \/ r.t = "seq" /\ Len(r.rs) > 0 /\ RxAnchored(r.rs[1])

\* a regular expression with its flags i (ignore case) and m (multiline)
Rx(r, i, m) ==
    [r |-> r, i |-> i, m |-> m, first |-> RxFirst(r), anchored |-> RxAnchored(r)]

RWs == RSet(SpaceChars)                           \* \s
RWsStar == RStar(RWs)                             \* \s*
RWsPlus == RPlus(RWs)                             \* \s+

\* the words w1|w2|... as an alternation of literals
RECURSIVE LitSeq(_)
LitSeq(ws) == IF ws = <<>> THEN <<>> ELSE <<RLit(Head(ws))>> \o LitSeq(Tail(ws))
RWords(ws) == RAlt(LitSeq(ws))

RxFail == [ok |-> FALSE, s |-> 0, e |-> 0, c |-> <<0, 0>>]

CharIn(ch, cs, ci) ==
    \/ ch \in cs
    \/ ci /\ (ToLowerCh(ch) \in cs \/ ToUpperCh(ch) \in cs)

IsWordAt(str, i) == i >= 1 /\ i <= Len(str) /\ SubSeq(str, i, i) \in WordChars

\* does the one-character node h accept the character at position i?
RxOne(h, txt, i, f) ==
    /\ i <= Len(txt.s)
    /\ CASE h.t = "set" -> CharIn(SubSeq(txt.s, i, i), h.cs, f.i)
         [] h.t = "not" -> ~CharIn(SubSeq(txt.s, i, i), h.cs, f.i)
         [] h.t = "any" -> SubSeq(txt.s, i, i) \notin {"\n", "\r"}
         [] OTHER -> FALSE

\* number of consecutive characters from position i that h accepts
RxRun(h, txt, i, f) ==
    CHOOSE L \in 0..(Len(txt.s) - i + 1) :
        /\ ~RxOne(h, txt, i + L, f)
        /\ \A q \in 0..(L - 1) : RxOne(h, txt, i + q, f)

\* the longest repetition: the run of accepted characters, at most hi
RxTop(hi, run) == IF hi # Inf /\ hi < run THEN hi ELSE run

\* the lengths lo..top of a repetition at position i after which the rest of
\* the expression, which begins with the characters fr, can begin
RxLengths(fr, txt, i, lo, top) ==
    IF fr.any \/ fr.nullable THEN lo..top
    ELSE { L \in lo..top :
             i + L <= Len(txt.l) /\ SubSeq(txt.l, i + L, i + L) \in fr.cs }

\* of the repetition lengths tried, the match after the longest (greedy) or
\* the shortest (lazy) length that lets the rest of the expression match
RxBest(tries, lazy) ==
    With({ t \in tries : t.m.ok }, LAMBDA good :
        IF good = {} THEN RxFail
        ELSE (CHOOSE t \in good :
                \A u \in good : IF lazy THEN t.len <= u.len ELSE t.len >= u.len).m)

\* The backtracking matcher.  k is the sequence of nodes still to match from
\* position i of txt.s (txt.l is txt.s in lower case; the literals of an
\* ignore-case expression are written in lower case); c is the span of
\* group 1, <<0, 0>> while it has not taken part.  The result is the first
\* match in the engine's priority order, or RxFail.  A repetition of a
\* one-character node tries its lengths from the longest (greedy) or the
\* shortest (lazy).
RECURSIVE RxMatch(_, _, _, _, _)
RxMatch(k, txt, i, c, f) ==
    IF Len(k) = 0 THEN [ok |-> TRUE, s |-> 0, e |-> i, c |-> c]
    ELSE
    LET h == Head(k)
        rest == Tail(k)
        n == Len(txt.s)
        src == IF f.i THEN txt.l ELSE txt.s
    IN
    CASE h.t = "lit" ->
           IF i + Len(h.s) - 1 <= n /\ SubSeq(src, i, i + Len(h.s) - 1) = h.s
           THEN RxMatch(rest, txt, i + Len(h.s), c, f) ELSE RxFail
      [] h.t \in {"set", "not", "any"} ->
           IF RxOne(h, txt, i, f) THEN RxMatch(rest, txt, i + 1, c, f) ELSE RxFail
      [] h.t = "seq" -> RxMatch(h.rs \o rest, txt, i, c, f)
      [] h.t = "alt" ->
           IF Len(h.rs) = 0 THEN RxFail
           ELSE LET first == RxMatch(<<Head(h.rs)>> \o rest, txt, i, c, f)
                IN  IF first.ok THEN first
                    ELSE RxMatch(<<RAlt(Tail(h.rs))>> \o rest, txt, i, c, f)
      [] h.t = "rep" /\ h.r.t \in {"set", "not", "any"} ->
           RxBest({ [len |-> L, m |-> RxMatch(rest, txt, i + L, c, f)] :
                      L \in RxLengths(RxFirstSeq(rest), txt, i, h.lo,
                                      RxTop(h.hi, RxRun(h.r, txt, i, f))) },
                  h.lazy)
      [] h.t = "rep" /\ h.r.t \notin {"set", "not", "any"} ->
           LET less == [h EXCEPT !.lo = IF @ > 0 THEN @ - 1 ELSE 0,
                                 !.hi = IF @ = Inf THEN Inf ELSE @ - 1]
               more == RxMatch(<<h.r, less>> \o rest, txt, i, c, f)
               skip == RxMatch(rest, txt, i, c, f)
           IN  IF h.lo > 0 THEN more
               ELSE IF h.hi = 0 THEN skip
               ELSE IF h.lazy THEN (IF skip.ok THEN skip ELSE more)
               ELSE (IF more.ok THEN more ELSE skip)
      [] h.t = "cap" -> RxMatch(<<RCapOpen, h.r, RCapClose>> \o rest, txt, i, c, f)
      [] h.t = "co" -> RxMatch(rest, txt, i, <<i, 0>>, f)
      [] h.t = "cc" -> RxMatch(rest, txt, i, <<c[1], i>>, f)
      [] h.t = "bol" ->
           IF i = 1 \/ (f.m /\ SubSeq(txt.s, i - 1, i - 1) = "\n")
           THEN RxMatch(rest, txt, i, c, f) ELSE RxFail
      [] h.t = "eol" ->
           IF i = n + 1 \/ (f.m /\ i <= n /\ SubSeq(txt.s, i, i) = "\n")
           THEN RxMatch(rest, txt, i, c, f) ELSE RxFail
      [] h.t = "wb" ->
           IF IsWordAt(txt.s, i - 1) # IsWordAt(txt.s, i)
           THEN RxMatch(rest, txt, i, c, f) ELSE RxFail

\* the positions of txt where the character ch (lower case) stands
PosOf(txt, ch) ==
    IF txt.indexed THEN (IF ch \in DOMAIN txt.pos THEN txt.pos[ch] ELSE {})
    ELSE { i \in 1..Len(txt.l) : SubSeq(txt.l, i, i) = ch }

\* the positions where a match of rx can begin
RxStarts(rx, txt) ==
    IF rx.anchored
    THEN {1} \cup (IF rx.m THEN { q + 1 : q \in PosOf(txt, "\n") } ELSE {})
    ELSE IF rx.first.any \/ rx.first.nullable THEN 1..(Len(txt.s) + 1)
    ELSE UNION { PosOf(txt, ch) : ch \in rx.first.cs }

\* of the matches tried from the start positions, the leftmost one
RxLeftmost(tries) ==
    With({ t \in tries : t.m.ok }, LAMBDA good :
        IF good = {} THEN RxFail
        ELSE With(CHOOSE t \in good : \A u \in good : t.s <= u.s, LAMBDA t :
                  [t.m EXCEPT !.s = t.s]))

\* leftmost match: the match from the first start position from which the
\* expression matches
RxSearch(rx, txt) ==
    RxLeftmost({ [s |-> i, m |-> RxMatch(<<rx.r>>, txt, i, <<0, 0>>, rx)] :
                   i \in RxStarts(rx, txt) })

\* a text with its lower-case form; Txt also indexes the positions of every
\* character, which pays when many expressions search the same text
TxtPlain(str) == [s |-> str, l |-> toLowerCase(str), indexed |-> FALSE, pos |-> <<>>]
Txt(str) ==
    With(toLowerCase(str), LAMBDA l :
        [s |-> str, l |-> l, indexed |-> TRUE,
         pos |-> [ch \in CharsOf(l) |-> { i \in 1..Len(l) : SubSeq(l, i, i) = ch }]
                     @@ <<>>])

\* String.prototype.match without the g flag / RegExp.prototype.exec
RxExec(rx, str) == RxSearch(rx, TxtPlain(str))
\* RegExp.prototype.test
RxTest(rx, str) == RxExec(rx, str).ok
\* match[0], match[1] ("" when group 1 did not take part)
Match0(str, m) == SubSeq(str, m.s, m.e - 1)
Match1(str, m) == IF m.c[1] = 0 THEN "" ELSE SubSeq(str, m.c[1], m.c[2] - 1)
\* String.prototype.replace(rx, "") for an expression that matches at most once
RxRemoveFirst(rx, str) ==
    With(RxExec(rx, str), LAMBDA m :
        IF m.ok THEN SubSeq(str, 1, m.s - 1) \o SubSeq(str, m.e, Len(str)) ELSE str)

\* ------------------------------------------------------------------------
\* Classification
\* ------------------------------------------------------------------------
Categories ==
    {"application_confirmation", "rejection", "interview_invitation",
     "offer", "follow_up", "unknown"}

\* /a/i and /a.*b/i
PLit(a) == Rx(RLit(a), TRUE, FALSE)
PGap(a, b) == Rx(RSeq(<<RLit(a), RStar(RAny), RLit(b)>>), TRUE, FALSE)

CATEGORY_PATTERNS == <<
    [category |-> "offer",
     patterns |-> <<
        PLit("offer letter"),
        PLit("job offer"),
        PLit("we are pleased to offer"),
        PLit("extend an offer"),
        PLit("offer of employment"),
        PGap("congratulations", "offer") >>],
    [category |-> "interview_invitation",
     patterns |-> <<
        PGap("schedule", "interview"),
        PGap("interview", "schedule"),
        PLit("phone screen"),
        PLit("invite you to interview"),
        PLit("like to schedule"),
        PGap("next steps", "interview"),
        PLit("technical assessment"),
        PLit("coding challenge"),
        PLit("take-home"),
        PLit("onsite interview"),
        PLit("virtual interview"),
        PLit("meet the team") >>],
    [category |-> "rejection",
     patterns |-> <<
        PLit("unfortunately"),
        PLit("not moving forward"),
        PLit("other candidates"),
        PLit("position has been filled"),
        PLit("decided not to proceed"),
        PLit("will not be moving"),
        PLit("not be able to offer"),
        PLit("pursue other candidates"),
        PLit("after careful consideration"),
        PLit("regret to inform"),
        PLit("won't be moving forward") >>],
    [category |-> "application_confirmation",
     patterns |-> <<
        PGap("application", "received"),
        PLit("thank you for applying"),
        PGap("application", "submitted"),
        PLit("we received your application"),
        PLit("application confirmation"),
        PLit("successfully applied"),
        PGap("application", "review") >>],
    [category |-> "follow_up",
     patterns |-> <<
        PLit("following up"),
        PLit("checking in"),
        PLit("update on your application"),
        PGap("status", "application"),
        PLit("wanted to reach out") >> ] >>

\* patterns.some((p) => p.test(text))
SomePatternMatches(patterns, txt) ==
    \E j \in 1..Len(patterns) : RxSearch(patterns[j], txt).ok

\* A faulty variant of the loop: the last matching group wins, so a later
\* group overrides an earlier one.
RECURSIVE ClassifyLastFrom(_, _)
ClassifyLastFrom(g, txt) ==
    IF g > Len(CATEGORY_PATTERNS) THEN "unknown"
    ELSE LET later == ClassifyLastFrom(g + 1, txt)
         IN  IF later # "unknown" THEN later
             ELSE IF SomePatternMatches(CATEGORY_PATTERNS[g].patterns, txt)
             THEN CATEGORY_PATTERNS[g].category
             ELSE "unknown"

\* the loop over CATEGORY_PATTERNS from group g on
RECURSIVE ClassifyFrom(_, _)
ClassifyFrom(g, txt) ==
    IF g > Len(CATEGORY_PATTERNS) THEN "unknown"
    ELSE IF SomePatternMatches(CATEGORY_PATTERNS[g].patterns, txt)
    THEN CATEGORY_PATTERNS[g].category
    ELSE ClassifyFrom(g + 1, txt)

classifyEmail(email) == ClassifyFrom(1, Txt(email.subject \o " " \o email.body))

\* The expressions of CATEGORY_PATTERNS are objects of the module that live
\* as long as the process; each carries a lastIndex.  A variant in which they
\* have the g flag, and the flags of the source: every one is /i.
CategoryPatternsGlobalFlag == TRUE
CategoryPatternsGlobal == FALSE

\* the leftmost match that begins at or after the 0-based index li
RxSearchFrom(rx, txt, li) ==
    RxLeftmost({ [s |-> i, m |-> RxMatch(<<rx.r>>, txt, i, <<0, 0>>, rx)] :
                   i \in { q \in RxStarts(rx, txt) : q > li } })

\* RegExp.prototype.test on an expression whose lastIndex is li: with the g
\* flag the search begins at lastIndex, which becomes the end of the match or
\* 0 when there is none; without it lastIndex is neither read nor written.
RegExpTestResult(global, li, m) ==
    IF global THEN [ok |-> m.ok, lastIndex |-> IF m.ok THEN m.e - 1 ELSE 0]
    ELSE [ok |-> m.ok, lastIndex |-> li]
RegExpTest(rx, global, li, txt) ==
    RegExpTestResult(global, li, RxSearchFrom(rx, txt, IF global THEN li ELSE 0))

\* patterns.some((p) => p.test(text)) from pattern j on, with the lastIndex
\* of each expression of the group in row
RECURSIVE SomeTestFrom(_, _, _, _)
SomeTestStep(patterns, j, txt, row, t) ==
    IF t.ok THEN [ok |-> TRUE, row |-> [row EXCEPT ![j] = t.lastIndex]]
    ELSE SomeTestFrom(patterns, j + 1, txt, [row EXCEPT ![j] = t.lastIndex])
SomeTestFrom(patterns, j, txt, row) ==
    IF j > Len(patterns) THEN [ok |-> FALSE, row |-> row]
    ELSE SomeTestStep(patterns, j, txt, row,
                      RegExpTest(patterns[j], CategoryPatternsGlobal, row[j], txt))

\* the loop of classifyEmail from group g on, with the lastIndex of every
\* expression in li; the result is the category and the lastIndex values left
RECURSIVE ClassifyWithFrom(_, _, _)
ClassifyWithStep(g, txt, li, some) ==
    IF some.ok
    THEN [category |-> CATEGORY_PATTERNS[g].category,
          lastIndex |-> [li EXCEPT ![g] = some.row]]
    ELSE ClassifyWithFrom(g + 1, txt, [li EXCEPT ![g] = some.row])
ClassifyWithFrom(g, txt, li) ==
    IF g > Len(CATEGORY_PATTERNS) THEN [category |-> "unknown", lastIndex |-> li]
    ELSE ClassifyWithStep(g, txt, li,
                          SomeTestFrom(CATEGORY_PATTERNS[g].patterns, 1, txt, li[g]))

\* classifyEmail called when the expressions have the lastIndex values li
classifyEmailWith(li, email) ==
    ClassifyWithFrom(1, Txt(email.subject \o " " \o email.body), li)

\* lastIndex of every expression when the module has been loaded
InitialLastIndex ==
    [g \in 1..Len(CATEGORY_PATTERNS) |->
        [j \in 1..Len(CATEGORY_PATTERNS[g].patterns) |-> 0]]

\* A faulty variant of shouldProcess: a follow-up e-mail is not processed.
shouldProcessNoFollowUp(email) ==
    LET category == classifyEmail(email)
    IN  IF category = "unknown" \/ category = "follow_up" THEN FALSE ELSE TRUE

shouldProcess(email) ==
    LET category == classifyEmail(email)
    IN  IF category = "unknown" THEN FALSE ELSE TRUE

\* ------------------------------------------------------------------------
\* Optional values: string | null | undefined is a set with at most one
\* string; a value is falsy when it is absent or the empty string.
\* ------------------------------------------------------------------------
Null == {}
Some(str) == {str}
Val(o) == CHOOSE v \in o : TRUE
Truthy(o) == o # {} /\ o # {""}
\* a || b
OrElse(a, b) == IF Truthy(a) THEN a ELSE b

\* ------------------------------------------------------------------------
\* Company resolution
\* ------------------------------------------------------------------------
GENERIC_SENDER_NAMES ==
    Rx(RSeq(<<RBol, RAlt(<<
        RSeq(<<RLit("no"), ROpt(RSet({"-", " "})), RLit("reply")>>),
        RSeq(<<RLit("do"), ROpt(RSet({"-", " "})), RLit("not"),
               ROpt(RSet({"-", " "})), RLit("reply")>>),
        RLit("recruiting"), RLit("careers"), RLit("talent"), RLit("hr"),
        RLit("jobs"), RSeq(<<RLit("notification"), ROpt(RLit("s"))>>),
        RLit("info"), RLit("support"), RLit("admin"), RLit("hello"),
        RLit("team"), RLit("mailer"),
        RSeq(<<RLit("update"), ROpt(RLit("s"))>>),
        RSeq(<<RLit("alert"), ROpt(RLit("s"))>>) >>)>>), TRUE, FALSE)

SENDER_SUFFIXES ==
    Rx(RSeq(<<RWsPlus, RAlt(<<
        RLit("recruiting"), RLit("careers"), RLit("talent acquisition"),
        RLit("talent"), RLit("team"), RLit("hr"), RLit("jobs"), RLit("hiring"),
        RLit("staffing"), RSeq(<<RLit("notification"), ROpt(RLit("s"))>>) >>),
        RWsStar, REol>>), TRUE, FALSE)

\* /\s*(Inc\.?|LLC|Ltd\.?|Corp\.?|Co\.?)\s*$/i
LEGAL_SUFFIXES ==
    Rx(RSeq(<<RWsStar, RAlt(<<
        RSeq(<<RLit("inc"), ROpt(RLit("."))>>),
        RLit("llc"),
        RSeq(<<RLit("ltd"), ROpt(RLit("."))>>),
        RSeq(<<RLit("corp"), ROpt(RLit("."))>>),
        RSeq(<<RLit("co"), ROpt(RLit("."))>>) >>),
        RWsStar, REol>>), TRUE, FALSE)

ATS_DOMAINS == <<
    "greenhouse.io", "lever.co", "workday.com", "myworkdayjobs.com",
    "icims.com", "smartrecruiters.com", "ashbyhq.com", "jobvite.com",
    "bamboohr.com", "applytojob.com", "recruitee.com", "breezy.hr",
    "jazz.co", "rippling.com" >>

BAD_COMPANY_NAMES ==
    {"the", "a", "an", "your", "our", "this", "that", "us", "we", "thank",
     "thanks", "hi", "hello", "dear", "application", "confirmation", "update",
     "status", "re", "fwd"}

cleanCompanyName(name) ==
    With(trim(collapseWhitespace(
             RxRemoveFirst(LEGAL_SUFFIXES, RxRemoveFirst(SENDER_SUFFIXES, name)))),
         LAMBDA cleaned :
             IF toLowerCase(cleaned) \in BAD_COMPANY_NAMES THEN Null
             ELSE IF cleaned = "" THEN Null ELSE Some(cleaned))

\* [A-Z][A-Za-z0-9\s&.,'-]+? as group 1
CompanyChars == Letters \cup Digits \cup SpaceChars \cup {"&", ".", ",", "'", "-"}
CompanyCap == RCap(RSeq(<<RSet(Uppers), RPlusLazy(RSet(CompanyChars))>>))
\* \s*[.!,]
EndPunct == RSeq(<<RWsStar, RSet({".", "!", ","})>>)
\* \s+(?:w1|w2|...)\b
EndWords(ws) == RSeq(<<RWsPlus, RWords(ws), RWb>>)

COMPANY_BODY_PATTERNS == <<
    Rx(RSeq(<<ROpt(RSeq(<<RLit("your"), RWsPlus>>)), RLit("application"), RWsPlus,
              RWords(<<"to", "at", "with", "for">>), RWsPlus,
              ROpt(RSeq(<<RLit("the"), RWsPlus>>)), CompanyCap,
              EndWords(<<"has been", "was", "is", "for the", "for a">>)>>),
       TRUE, FALSE),
    Rx(RSeq(<<RWords(<<"applying", "applied">>), RWsPlus,
              RWords(<<"to", "at", "with", "for">>), RWsPlus,
              ROpt(RSeq(<<RLit("the"), RWsPlus>>)), CompanyCap,
              RAlt(<<EndPunct, EndWords(<<"for", "and", "as">>)>>)>>),
       TRUE, FALSE),
    Rx(RSeq(<<RLit("interest"), RWsPlus, RLit("in"), RWsPlus,
              ROpt(RSeq(<<RLit("working"), RWsPlus, RWords(<<"at", "with">>),
                          RWsPlus>>)), CompanyCap,
              RAlt(<<EndPunct, EndWords(<<"and", "we">>)>>)>>),
       TRUE, FALSE),
    Rx(RSeq(<<RLit("on"), RWsPlus, RLit("behalf"), RWsPlus, RLit("of"), RWsPlus,
              CompanyCap, EndPunct>>),
       TRUE, FALSE),
    Rx(RSeq(<<RWords(<<"position", "role", "opportunity">>), RWsPlus,
              RWords(<<"at", "with">>), RWsPlus, CompanyCap,
              RAlt(<<EndPunct, EndWords(<<"and", "has", "is", "we">>)>>)>>),
       TRUE, FALSE),
    Rx(RSeq(<<RBol, CompanyCap, RWsPlus,
              RAlt(<<RSeq(<<RLit("has"), RWsPlus, RLit("received")>>),
                     RLit("received"), RLit("confirms"), RLit("would like")>>)>>),
       TRUE, TRUE),
    Rx(RSeq(<<RLit("team"), RWsPlus, RLit("at"), RWsPlus, CompanyCap, EndPunct>>),
       TRUE, FALSE) >>

\* (?:\s*[-|!]|\s*$)
SubjectEnd == RAlt(<<RSeq(<<RWsStar, RSet({"-", "|", "!"})>>), RSeq(<<RWsStar, REol>>)>>)

COMPANY_SUBJECT_PATTERNS == <<
    Rx(RSeq(<<RWb, RLit("at"), RWsPlus, CompanyCap, SubjectEnd>>), FALSE, FALSE),
    Rx(RSeq(<<RWb, RLit("from"), RWsPlus, CompanyCap, SubjectEnd>>), FALSE, FALSE),
    Rx(RSeq(<<RWb, RLit("with"), RWsPlus, CompanyCap, SubjectEnd>>), FALSE, FALSE),
    Rx(RSeq(<<RBol, CompanyCap, RWsStar, RSet({"-", "|", ":"}), RWs>>), FALSE, FALSE) >>

\* the company length check shared by the body, sender and subject strategies
CompanyLengthOk(name) ==
    Truthy(name) /\ Len(Val(name)) >= 2 /\ Len(Val(name)) < 80

\* for (const pattern of patterns) { ... } from pattern j on
RECURSIVE CompanyFromPatterns(_, _, _)
CompanyFromPatterns(patterns, j, txt) ==
    IF j > Len(patterns) THEN Null
    ELSE With(RxSearch(patterns[j], txt), LAMBDA match :
         With(cleanCompanyName(Match1(txt.s, match)), LAMBDA name :
             IF match.ok /\ CompanyLengthOk(name) THEN name
             ELSE CompanyFromPatterns(patterns, j + 1, txt)))

extractCompanyFromBody(body) == CompanyFromPatterns(COMPANY_BODY_PATTERNS, 1, Txt(body))

extractCompanyFromSubject(subject) ==
    CompanyFromPatterns(COMPANY_SUBJECT_PATTERNS, 1, Txt(subject))

\* /^"?([^"<]+)"?\s*</
SENDER_NAME ==
    Rx(RSeq(<<RBol, ROpt(RLit("\"")), RCap(RPlus(RNot({"\"", "<"}))),
              ROpt(RLit("\"")), RWsStar, RLit("<")>>), FALSE, FALSE)

extractCompanyFromSender(from) ==
    With(RxExec(SENDER_NAME, from), LAMBDA nameMatch :
    With(trim(Match1(from, nameMatch)), LAMBDA name :
    With(cleanCompanyName(name), LAMBDA cleaned :
        IF ~nameMatch.ok THEN Null
        ELSE IF RxTest(GENERIC_SENDER_NAMES, name) THEN Null
        ELSE IF CompanyLengthOk(cleaned) THEN cleaned
        ELSE Null)))

\* d.split(".")[0]
FirstLabel(d) ==
    LET dots == { i \in 1..Len(d) : SubSeq(d, i, i) = "." }
    IN  IF dots = {} THEN d ELSE SubSeq(d, 1, MinOf(dots) - 1)

\* Title-case a domain name
titleCase(domain) ==
    CASE domain = "randstadservices" -> "Randstad"
      [] domain = "smartrecruiters" -> "SmartRecruiters"
      [] domain = "bamboohr" -> "BambooHR"
      [] OTHER -> ToUpperCh(SubSeq(domain, 1, 1)) \o sliceFrom(domain, 1)

\* /@([^.>]+)\./
SENDER_DOMAIN ==
    Rx(RSeq(<<RLit("@"), RCap(RPlus(RNot({".", ">"}))), RLit(".")>>), FALSE, FALSE)

SKIP_DOMAINS ==
    {"gmail", "yahoo", "hotmail", "outlook", "mail", "proton", "icloud"}
        \cup { FirstLabel(ATS_DOMAINS[j]) : j \in 1..Len(ATS_DOMAINS) }

extractCompanyFromDomain(from) ==
    With(RxExec(SENDER_DOMAIN, from), LAMBDA domainMatch :
    With(toLowerCase(Match1(from, domainMatch)), LAMBDA domain :
        IF ~domainMatch.ok THEN Null
        ELSE IF domain \in SKIP_DOMAINS THEN Null
        ELSE Some(titleCase(domain))))

\* ATS_DOMAINS.some((d) => email.from.toLowerCase().includes(d))
isAts(from) ==
    \E j \in 1..Len(ATS_DOMAINS) : includes(toLowerCase(from), ATS_DOMAINS[j])

UnknownCompany == "Unknown Company"

\* A faulty variant of the return statements: for an ATS sender the subject
\* strategy comes before the body strategy.
PickCompanySubjectFirst(ats, bodyCompany, fromCompany, subjectCompany, domainCompany) ==
    IF ats
    THEN Val(OrElse(subjectCompany, OrElse(bodyCompany,
             OrElse(fromCompany, OrElse(domainCompany, Some(UnknownCompany))))))
    ELSE Val(OrElse(fromCompany, OrElse(bodyCompany,
             OrElse(subjectCompany, OrElse(domainCompany, Some(UnknownCompany))))))

\* the return statements of extractCompany
PickCompany(ats, bodyCompany, fromCompany, subjectCompany, domainCompany) ==
    IF ats
    THEN Val(OrElse(bodyCompany, OrElse(subjectCompany,
             OrElse(fromCompany, OrElse(domainCompany, Some(UnknownCompany))))))
    ELSE Val(OrElse(fromCompany, OrElse(bodyCompany,
             OrElse(subjectCompany, OrElse(domainCompany, Some(UnknownCompany))))))

\* A faulty variant of extractCompany: the sender-name strategy comes first
\* for every sender, an ATS sender included.
extractCompanySenderFirst(email, body) ==
    PickCompany(FALSE,
                extractCompanyFromBody(body),
                extractCompanyFromSender(email.from),
                extractCompanyFromSubject(email.subject),
                extractCompanyFromDomain(email.from))

extractCompany(email, body) ==
    PickCompany(isAts(email.from),
                extractCompanyFromBody(body),
                extractCompanyFromSender(email.from),
                extractCompanyFromSubject(email.subject),
                extractCompanyFromDomain(email.from))

\* ------------------------------------------------------------------------
\* Position resolution
\* ------------------------------------------------------------------------
JOB_TITLE_KEYWORDS ==
    Rx(RSeq(<<RWb, RAlt(<<
        RLit("developer"), RLit("engineer"), RLit("designer"), RLit("analyst"),
        RLit("manager"), RLit("director"), RLit("coordinator"),
        RLit("specialist"), RLit("consultant"), RLit("administrator"),
        RLit("architect"), RLit("lead"), RLit("senior"), RLit("junior"),
        RLit("intern"), RLit("associate"), RLit("assistant"),
        RSeq(<<RLit("full"), ROpt(RSet({"-", " "})), RLit("stack")>>),
        RSeq(<<RLit("front"), ROpt(RSet({"-", " "})), RLit("end")>>),
        RSeq(<<RLit("back"), ROpt(RSet({"-", " "})), RLit("end")>>),
        RLit("devops"), RLit("qa"), RLit("sre"), RLit("data"), RLit("software"),
        RLit("web"), RLit("mobile"), RLit("cloud"), RLit("product"),
        RLit("project"), RLit("program"), RLit("marketing"), RLit("sales"),
        RLit("support"), RLit("operations"), RSeq(<<RLit("it"), RWb>>),
        RLit("ux"), RLit("ui") >>), RWb>>), TRUE, FALSE)

NOT_A_POSITION ==
    Rx(RSeq(<<RBol, RWords(<<
        "thank you", "thanks", "application", "confirmation", "update",
        "status", "their interest", "your interest", "our team", "the team",
        "dear", "hi", "hello", "regarding", "re", "fwd", "fw">>)>>), TRUE, FALSE)

\* text.split(/\s+/).length >= 2
HasTwoWords(text) == \E i \in 1..Len(text) : SubSeq(text, i, i) \in SpaceChars

isValidPosition(text) ==
    IF text = "" \/ Len(text) < 3 \/ Len(text) > 100 THEN FALSE
    ELSE IF RxTest(NOT_A_POSITION, text) THEN FALSE
    ELSE IF RxTest(JOB_TITLE_KEYWORDS, text) THEN TRUE
    ELSE IF HasTwoWords(text) THEN TRUE
    ELSE FALSE

\* [A-Za-z0-9\s/,.-]+? as group 1
PositionChars == Letters \cup Digits \cup SpaceChars \cup {"/", ",", ".", "-"}
PositionCap == RCap(RPlusLazy(RSet(PositionChars)))
\* (?:the\s+)?(?:position\s+of\s+)?
OptThe == ROpt(RSeq(<<RLit("the"), RWsPlus>>))
OptPositionOf == ROpt(RSeq(<<RLit("position"), RWsPlus, RLit("of"), RWsPlus>>))

POSITION_BODY_PATTERNS == <<
    Rx(RSeq(<<RLit("for"), RWsPlus, RLit("the"), RWsPlus, PositionCap, RWsPlus,
              RWords(<<"position", "role", "opening", "opportunity">>)>>),
       TRUE, FALSE),
    Rx(RSeq(<<RAlt(<<RLit("position"), RLit("role"),
                     RSeq(<<RLit("job"), RWsStar, RLit("title")>>)>>),
              RWsStar, RSet({":", "-"}), RWsStar, PositionCap,
              RAlt(<<RSeq(<<RWsStar, RSet({".", "\n", ",", ";"})>>),
                     EndWords(<<"at", "with", "in", "is">>)>>)>>),
       TRUE, FALSE),
    Rx(RSeq(<<RWords(<<"applied", "applying">>), RWsPlus, RWords(<<"for", "to">>),
              RWsPlus, OptThe, OptPositionOf, PositionCap,
              RAlt(<<EndWords(<<"position", "role", "at", "with">>),
                     RSeq(<<RWsStar, RSet({".", ",", ";"})>>)>>)>>),
       TRUE, FALSE),
    Rx(RSeq(<<RLit("application"), RWsPlus, RLit("for"), RWsPlus, OptThe,
              OptPositionOf, PositionCap,
              RAlt(<<EndWords(<<"position", "role", "at", "with", "has">>),
                     RSeq(<<RWsStar, RSet({".", ",", ";"})>>)>>)>>),
       TRUE, FALSE),
    Rx(RSeq(<<RLit("the"), RWsPlus, PositionCap, RWsPlus,
              RWords(<<"role", "position", "opening">>), RWsPlus,
              RWords(<<"at", "with">>), RWb>>),
       TRUE, FALSE),
    Rx(RSeq(<<RLit("interested"), RWsPlus, RLit("in"), RWsPlus, OptThe,
              OptPositionOf, PositionCap,
              RAlt(<<EndWords(<<"position", "role", "at", "with">>),
                     RSeq(<<RWsStar, RSet({".", ",", ";"})>>)>>)>>),
       TRUE, FALSE) >>

POSITION_SUBJECT_PATTERNS == <<
    Rx(RSeq(<<RLit("application"), RWsStar, RSet({"-", ":"}), RWsStar, PositionCap,
              RAlt(<<EndWords(<<"at", "with", "-">>), RSeq(<<RWsStar, REol>>)>>)>>),
       TRUE, FALSE),
    Rx(RSeq(<<RBol, ROpt(RSeq(<<RLit("re:"), RWsStar>>)), PositionCap, RWsPlus,
              RWords(<<"at", "@">>), RWsPlus>>),
       TRUE, FALSE),
    Rx(RSeq(<<RLit("application"), RWsPlus, RLit("for"), RWsPlus, OptThe,
              PositionCap,
              RAlt(<<EndWords(<<"at", "with">>), RSeq(<<RWsStar, REol>>)>>)>>),
       TRUE, FALSE),
    Rx(RSeq(<<RWords(<<"role", "position", "job">>), RWsStar, RSet({"-", ":"}),
              RWsStar, RCap(RPlus(RSet(PositionChars)))>>),
       TRUE, FALSE) >>

\* A faulty variant of the loop: the first template that matches decides,
\* also when its capture is not a valid position.
RECURSIVE PositionFromFirstMatch(_, _, _)
PositionFromFirstMatch(patterns, j, txt) ==
    IF j > Len(patterns) THEN Null
    ELSE With(RxSearch(patterns[j], txt), LAMBDA match :
         With(trim(Match1(txt.s, match)), LAMBDA position :
             IF match.ok
             THEN (IF isValidPosition(position) THEN Some(position) ELSE Null)
             ELSE PositionFromFirstMatch(patterns, j + 1, txt)))

\* for (const pattern of patterns) { ... } from pattern j on
RECURSIVE PositionFromPatterns(_, _, _)
PositionFromPatterns(patterns, j, txt) ==
    IF j > Len(patterns) THEN Null
    ELSE With(RxSearch(patterns[j], txt), LAMBDA match :
         With(trim(Match1(txt.s, match)), LAMBDA position :
             IF match.ok /\ isValidPosition(position) THEN Some(position)
             ELSE PositionFromPatterns(patterns, j + 1, txt)))

extractPositionFromBody(body) ==
    PositionFromPatterns(POSITION_BODY_PATTERNS, 1, Txt(body))

extractPositionFromSubject(subject) ==
    PositionFromPatterns(POSITION_SUBJECT_PATTERNS, 1, Txt(subject))

\* /^(re:|fwd?:|fw:)\s*/gi
REPLY_PREFIX ==
    Rx(RSeq(<<RBol, RAlt(<<RLit("re:"), RSeq(<<RLit("fw"), ROpt(RLit("d")), RLit(":")>>),
                           RLit("fw:")>>), RWsStar>>), TRUE, FALSE)
\* /^(application|confirmation|thank you|update|your)\s*[-:|]\s*/gi
BOILERPLATE_PREFIX ==
    Rx(RSeq(<<RBol, RWords(<<"application", "confirmation", "thank you", "update",
                             "your">>),
              RWsStar, RSet({"-", ":", "|"}), RWsStar>>), TRUE, FALSE)
\* /\s*[-|]\s*.+$/
DASH_TAIL ==
    Rx(RSeq(<<RWsStar, RSet({"-", "|"}), RWsStar, RPlus(RAny), REol>>), FALSE, FALSE)

cleanedSubject(subject) ==
    trim(RxRemoveFirst(DASH_TAIL,
            RxRemoveFirst(BOILERPLATE_PREFIX,
                RxRemoveFirst(REPLY_PREFIX, subject))))

UnknownPosition == "Unknown Position"

\* the return statements of extractPosition
PickPosition(bodyPosition, subjectPosition, cleanSubject) ==
    IF Truthy(bodyPosition) THEN Val(bodyPosition)
    ELSE IF Truthy(subjectPosition) THEN Val(subjectPosition)
    ELSE IF /\ cleanSubject # ""
            /\ RxTest(JOB_TITLE_KEYWORDS, cleanSubject)
            /\ ~RxTest(NOT_A_POSITION, cleanSubject)
    THEN cleanSubject
    ELSE UnknownPosition

extractPosition(email, body) ==
    PickPosition(extractPositionFromBody(body),
                 extractPositionFromSubject(email.subject),
                 cleanedSubject(email.subject))

\* ------------------------------------------------------------------------
\* Salary, location, job link
\* ------------------------------------------------------------------------
\* \$[\d,]+
Dollars == RSeq(<<RLit("$"), RPlus(RSet(Digits \cup {","}))>>)
\* [-to]+
RangeSep == RPlus(RSet({"-", "t", "o"}))

SALARY_PATTERNS == <<
    Rx(RSeq(<<Dollars, RWsStar, RangeSep, RWsStar, Dollars, RWsStar,
              ROpt(RSeq(<<RLit("per"), RWsPlus,
                          RWords(<<"year", "annum", "hr", "hour">>)>>))>>),
       TRUE, FALSE),
    Rx(RSeq(<<Dollars, RWsStar, ROpt(RLit("k")), RWsStar, RangeSep, RWsStar,
              Dollars, RWsStar, ROpt(RLit("k"))>>),
       TRUE, FALSE),
    Rx(RSeq(<<RLit("salary"), RWsStar, ROpt(RLit("range")), ROpt(RLit(":")),
              RWsStar, Dollars>>),
       TRUE, FALSE),
    Rx(RSeq(<<RLit("compensation"), ROpt(RLit(":")), RWsStar, Dollars>>),
       TRUE, FALSE) >>

LOCATION_PATTERNS == <<
    Rx(RSeq(<<RWords(<<"location", "based in", "located in", "office in">>),
              ROpt(RLit(":")), RWsStar,
              RCap(RSeq(<<RPlus(RSet(Letters \cup SpaceChars \cup {","})),
                          ROpt(RSeq(<<RLit(","), RWsStar,
                                      RRep(RSet(Uppers), 2, 2, FALSE)>>))>>)),
              RSet({".", ",", "\n"})>>),
       TRUE, FALSE),
    Rx(RAlt(<<RLit("remote"), RLit("hybrid"),
              RSeq(<<RLit("on"), ROpt(RLit("-")), RLit("site")>>)>>),
       TRUE, FALSE) >>

\* for (const pattern of patterns) { if (match) return ... } from pattern j on
RECURSIVE FirstMatchOf(_, _, _, _)
FirstMatchOf(patterns, j, txt, group1) ==
    IF j > Len(patterns) THEN Null
    ELSE With(RxSearch(patterns[j], txt), LAMBDA match :
             IF match.ok
             THEN With(Match1(txt.s, match), LAMBDA m1 :
                      IF group1 /\ m1 # "" THEN Some(trim(m1))
                      ELSE Some(trim(Match0(txt.s, match))))
             ELSE FirstMatchOf(patterns, j + 1, txt, group1))

extractSalary(text) == FirstMatchOf(SALARY_PATTERNS, 1, Txt(text), FALSE)

extractLocation(text) == FirstMatchOf(LOCATION_PATTERNS, 1, Txt(text), TRUE)

\* [\w-] and [\w\-./?%&=#]
HostChars == WordChars \cup {"-"}
UrlChars == WordChars \cup {"-", ".", "/", "?", "%", "&", "=", "#"}
\* https?:\/\/
Scheme == RSeq(<<RLit("http"), ROpt(RLit("s")), RLit("://")>>)
\* (?:\/[\w\-./?%&=#]*)?
OptPath == ROpt(RSeq(<<RLit("/"), RStar(RSet(UrlChars))>>))

URL_PATTERN ==
    Rx(RSeq(<<Scheme,
              RRep(RSeq(<<RPlus(RSet(HostChars)), RLit(".")>>), 1, Inf, FALSE),
              RPlus(RSet(HostChars)), OptPath,
              RWords(<<"job", "career", "position", "apply", "opening">>),
              OptPath>>),
       TRUE, FALSE)

ATS_URL_PATTERN ==
    Rx(RSeq(<<Scheme, ROpt(RSeq(<<RPlus(RSet(HostChars)), RLit(".")>>)),
              RWords(<<"greenhouse", "lever", "workday", "icims",
                       "smartrecruiters", "ashbyhq", "jobvite", "bamboohr">>),
              RStar(RSet(UrlChars))>>),
       TRUE, FALSE)

extractJobLink(text) ==
    With(Txt(text), LAMBDA txt :
    With(RxSearch(URL_PATTERN, txt), LAMBDA match :
    With(RxSearch(ATS_URL_PATTERN, txt), LAMBDA atsMatch :
        IF match.ok THEN Some(Match0(text, match))
        ELSE IF atsMatch.ok THEN Some(Match0(text, atsMatch))
        ELSE Null)))

\* ------------------------------------------------------------------------
\* State
\* ------------------------------------------------------------------------
VARIABLES
    email,          \* the ParsedEmail handed to the parser
    tz,             \* the time zone of the process (the TZ of its environment)
    pc,             \* "ready", then the function that has returned
    category,       \* returned by classifyEmail / passed to parseJobApplication
    processable,    \* returned by shouldProcess
    application,    \* outcome of parseJobApplication
    lastIndex,      \* lastIndex of every expression of CATEGORY_PATTERNS
    trace,          \* the calls made so far with what they returned
    stateFile,      \* content of STATE_FILE: absent or the saved timestamp
    database,       \* the pages of the Notion database, in the order created
    state,          \* processNewEmails: lastProcessedTimestamp of the loaded state
    fetch,          \* processNewEmails: how fetchJobEmails ended in this run
    emails,         \* processNewEmails: the e-mails fetched
    cursor,         \* processNewEmails: index in emails of the next e-mail
    processedIds,   \* processNewEmails: processedIds
    latestTimestamp,\* processNewEmails: latestTimestamp
    outcome,        \* for every e-mail the loop has passed, how it ended
    handed,         \* the calls of createOrUpdateApplication made in this run
    lastWrite,      \* what the last call of createOrUpdateApplication did
    labelled,       \* the ids passed to labelAsProcessed in this run, if called
    saved,          \* how saveState ended in this run
    runs            \* number of runs of processNewEmails begun

parserVars == <<email, tz, pc, category, processable, application>>
callVars == <<lastIndex, trace>>
storeVars == <<stateFile, database>>
runVars == <<state, fetch, emails, cursor, processedIds, latestTimestamp, outcome,
             handed, lastWrite, labelled, saved, runs>>
vars == <<parserVars, callVars, storeVars, runVars>>

\* ------------------------------------------------------------------------
\* Dates: a time value is a number of seconds since 1970-01-01T00:00:00Z
\* (the milliseconds of the source play no part in a calendar date); an
\* Invalid Date is the empty set.
\* ------------------------------------------------------------------------
DigitVal(ch) == (CHOOSE j \in 1..10 : SubSeq(DigitChars, j, j) = ch) - 1
IsDigits(str) == \A i \in 1..Len(str) : SubSeq(str, i, i) \in Digits
RECURSIVE ToNumber(_)
ToNumber(str) ==
    IF str = "" THEN 0
    ELSE 10 * ToNumber(SubSeq(str, 1, Len(str) - 1))
         + DigitVal(SubSeq(str, Len(str), Len(str)))

\* n written with at least w digits
RECURSIVE Pad(_, _)
Pad(n, w) ==
    IF w <= 1 /\ n < 10 THEN SubSeq(DigitChars, n + 1, n + 1)
    ELSE Pad(n \div 10, w - 1) \o SubSeq(DigitChars, (n % 10) + 1, (n % 10) + 1)

SecondsPerDay == 24 * 60 * 60

\* days between 1970-01-01 and the civil date y-m-d (m and d may overflow
\* only through DaysFromCivil(y, m, 1) + d - 1, as MakeDay does)
DaysFromCivil(y, m, d) ==
    LET yy == IF m <= 2 THEN y - 1 ELSE y
        era == yy \div 400
        yoe == yy - era * 400
        mp == IF m > 2 THEN m - 3 ELSE m + 9
        doy == (153 * mp + 2) \div 5 + d - 1
        doe == yoe * 365 + yoe \div 4 - yoe \div 100 + doy
    IN  era * 146097 + doe - 719468

CivilFromDays(z) ==
    LET zz == z + 719468
        era == zz \div 146097
        doe == zz - era * 146097
        yoe == (doe - doe \div 1460 + doe \div 36524 - doe \div 146096) \div 365
        doy == doe - (365 * yoe + yoe \div 4 - yoe \div 100)
        mp == (5 * doy + 2) \div 153
        d == doy - (153 * mp + 2) \div 5 + 1
        m == IF mp < 10 THEN mp + 3 ELSE mp - 9
    IN  [y |-> IF m <= 2 THEN yoe + era * 400 + 1 ELSE yoe + era * 400,
         m |-> m, d |-> d]

DaysInMonth(y, m) == DaysFromCivil(IF m = 12 THEN y + 1 ELSE y,
                                   IF m = 12 THEN 1 ELSE m + 1, 1)
                     - DaysFromCivil(y, m, 1)

\* new Date(str) for the ISO form YYYY-MM-DDTHH:MM:SS[.sss]Z that
\* toISOString writes; every other string of the model is an Invalid Date
DateParse(str) ==
    LET part(a, b) == SubSeq(str, a, b)
        shape == /\ Len(str) \in {20, 24}
                 /\ part(5, 5) = "-" /\ part(8, 8) = "-" /\ part(11, 11) = "T"
                 /\ part(14, 14) = ":" /\ part(17, 17) = ":"
                 /\ part(Len(str), Len(str)) = "Z"
                 /\ IsDigits(part(1, 4)) /\ IsDigits(part(6, 7))
                 /\ IsDigits(part(9, 10)) /\ IsDigits(part(12, 13))
                 /\ IsDigits(part(15, 16)) /\ IsDigits(part(18, 19))
                 /\ (Len(str) = 24 => part(20, 20) = "." /\ IsDigits(part(21, 23)))
        y == ToNumber(part(1, 4))
        m == ToNumber(part(6, 7))
        d == ToNumber(part(9, 10))
        hh == ToNumber(part(12, 13))
        mm == ToNumber(part(15, 16))
        ss == ToNumber(part(18, 19))
    IN  IF /\ shape
           /\ m \in 1..12 /\ d >= 1 /\ d <= DaysInMonth(y, m)
           /\ hh \in 0..23 /\ mm \in 0..59 /\ ss \in 0..59
        THEN {DaysFromCivil(y, m, d) * SecondsPerDay + hh * 3600 + mm * 60 + ss}
        ELSE {}

\* Date.prototype.toISOString().split("T")[0]
IsoDate(t) ==
    LET c == CivilFromDays(t \div SecondsPerDay)
    IN  Pad(c.y, 4) \o "-" \o Pad(c.m, 2) \o "-" \o Pad(c.d, 2)

\* Time zones: the offset from UTC in seconds, with one daylight-saving
\* interval [dstStart, dstEnd) of the year 2024 given in UTC.
UTC == [name |-> "UTC", std |-> 0, dst |-> 0, dstStart |-> 0, dstEnd |-> 0]
NewYork ==
    [name |-> "America/New_York", std |-> 0 - 5 * 3600, dst |-> 0 - 4 * 3600,
     dstStart |-> DaysFromCivil(2024, 3, 10) * SecondsPerDay + 7 * 3600,
     dstEnd |-> DaysFromCivil(2024, 11, 3) * SecondsPerDay + 6 * 3600]
TimeZones == {UTC, NewYork}

\* LocalTime(t) and UTC(t) of the language: the local wall clock of a time
\* value, and the time value of a local wall clock (a wall clock that occurs
\* twice or never takes the offset in force before the transition)
LocalOffset(zone, t) == IF zone.dstStart <= t /\ t < zone.dstEnd THEN zone.dst ELSE zone.std
LocalTime(zone, t) == t + LocalOffset(zone, t)
UtcOfLocal(zone, l) ==
    IF zone.dstStart <= l - zone.dst /\ l - zone.dst < zone.dstEnd
    THEN l - zone.dst
    ELSE l - zone.std

\* date.setDate(date.getDate() + n) in the time zone of the process
SetDatePlus(zone, t, n) ==
    LET l == LocalTime(zone, t)
        c == CivilFromDays(l \div SecondsPerDay)
        timeInDay == l % SecondsPerDay
        day == DaysFromCivil(c.y, c.m, 1) + (c.d + n) - 1
    IN  UtcOfLocal(zone, day * SecondsPerDay + timeInDay)

\* the result of a call that raised an exception
Thrown == [threw |-> TRUE]

generateFollowUpDate(fromDate, daysFromNow) ==
    With(DateParse(fromDate), LAMBDA date :
        IF date = {} THEN Thrown
        ELSE [threw |-> FALSE, v |-> IsoDate(SetDatePlus(tz, Val(date), daysFromNow))])

\* ------------------------------------------------------------------------
\* parseJobApplication
\* ------------------------------------------------------------------------
\* A faulty variant of STATUS_MAP: a follow-up e-mail gets a status of its
\* own.
STATUS_MAP_FollowUp ==
    [c \in Categories |->
        CASE c = "application_confirmation" -> "Applied"
          [] c = "rejection" -> "Rejected"
          [] c = "interview_invitation" -> "Interview"
          [] c = "offer" -> "Offer"
          [] c = "follow_up" -> "Follow Up"
          [] c = "unknown" -> "Applied"]

STATUS_MAP ==
    [c \in Categories |->
        CASE c = "application_confirmation" -> "Applied"
          [] c = "rejection" -> "Rejected"
          [] c = "interview_invitation" -> "Interview"
          [] c = "offer" -> "Offer"
          [] c = "follow_up" -> "Applied"
          [] c = "unknown" -> "Applied"]

BodyScanLimit == 3000

\* category.replace(/_/g, " ")
RECURSIVE UnderscoresToSpaces(_)
UnderscoresToSpaces(str) ==
    IF Len(str) = 0 THEN ""
    ELSE IF Len(str) = 1 THEN (IF str = "_" THEN " " ELSE str)
    ELSE LET h == Len(str) \div 2
         IN  UnderscoresToSpaces(SubSeq(str, 1, h))
                 \o UnderscoresToSpaces(SubSeq(str, h + 1, Len(str)))

\* A faulty variant of "value || undefined": the value is kept as it is.
KeepValue(o) == o

\* value || undefined
OrUndefined(o) == IF Truthy(o) THEN o ELSE Null

\* A faulty variant of the extraction: the whole plain body is scanned.
ExtractedFieldsWholeBody(mail) ==
    [company |-> extractCompany(mail, mail.body),
     position |-> extractPosition(mail, mail.body),
     salaryRange |-> extractSalary(mail.body),
     location |-> extractLocation(mail.body),
     jobLink |-> extractJobLink(IF Truthy(mail.htmlBody) THEN Val(mail.htmlBody)
                                ELSE mail.body)]

\* The fields parseJobApplication reads off the texts of the e-mail; they do
\* not depend on the category.
ExtractedFields(mail) ==
    LET body == sliceTo(mail.body, BodyScanLimit)
    IN  [company |-> extractCompany(mail, body),
         position |-> extractPosition(mail, body),
         salaryRange |-> extractSalary(body),
         location |-> extractLocation(body),
         jobLink |-> extractJobLink(IF Truthy(mail.htmlBody) THEN Val(mail.htmlBody)
                                    ELSE body)]

\* the record built from the extracted fields, the category and the date
BuildApplication(mail, cat, fields) ==
    With(IF cat = "application_confirmation" THEN generateFollowUpDate(mail.date, 7)
         ELSE IF cat = "interview_invitation" THEN generateFollowUpDate(mail.date, 1)
         ELSE [threw |-> FALSE, v |-> ""],
         LAMBDA followUpDate :
    With(DateParse(mail.date), LAMBDA date :
        IF followUpDate.threw \/ date = {} THEN Thrown
        ELSE [threw |-> FALSE,
              company |-> fields.company,
              position |-> fields.position,
              dateApplied |-> IsoDate(Val(date)),
              status |-> STATUS_MAP[cat],
              salaryRange |-> OrUndefined(fields.salaryRange),
              location |-> OrUndefined(fields.location),
              jobLink |-> OrUndefined(fields.jobLink),
              emailThreadLink |->
                  "https://mail.google.com/mail/u/0/#inbox/" \o mail.threadId,
              followUpDate |-> IF followUpDate.v = "" THEN Null
                               ELSE Some(followUpDate.v),
              notes |-> "Auto-tracked from email: " \o UnderscoresToSpaces(cat),
              sourceEmail |-> mail.subject]))

parseJobApplication(mail, cat) == BuildApplication(mail, cat, ExtractedFields(mail))

\* ------------------------------------------------------------------------
\* Inputs
\* ------------------------------------------------------------------------
\* number of sentences a generated body is made of, at most
MaxBodyParts == 2

\* str repeated n times
RECURSIVE Repeat(_, _)
Repeat(str, n) ==
    IF n <= 0 THEN ""
    ELSE IF n = 1 THEN str
    ELSE Repeat(str, n \div 2) \o Repeat(str, n - n \div 2)

\* sender headers: direct company mail, ATS mail, headers without a display
\* name, generic display names, names and domain labels at the length limits
Froms ==
    {"Acme Corp <hr@acme.com>",
     "\"Greenhouse Recruiting\" <no-reply@greenhouse.io>",
     "no-reply@greenhouse.io",
     "Careers <jobs@us.greenhouse.io>",
     "\"Acme via greenhouse.io\" <hr@acme.com>",
     "jobs@x.com",
     "Recruiting <team@hello.com>",
     "The Team <talent@gmail.com>",
     "X <jane@gmail.com>",
     "Jane Doe <jane@gmail.com>",
     "G" \o Repeat("o", 78) \o " <hr@gmail.com>",
     "G" \o Repeat("o", 79) \o " <hr@gmail.com>",
     "careers@g" \o Repeat("o", 79) \o ".com",
     "Unknown Company <hr@initech.com>",
     ""}

CompanySubjects ==
    {"",
     "Thank you for applying to Acme Corp",
     "Interview at Globex Inc. - next steps",
     "Update on your application - Acme Corp",
     "Offer from X !",
     "Your application with The"}

CompanyBodies ==
    {"",
     "We received your application for the Data Analyst position at Acme Corp.",
     "Unfortunately, we have decided to move forward with other candidates for the Data Analyst role at Acme Corp.",
     "Thank you for applying to X , we will be in touch.",
     "Thank you for your interest in Us. We are on behalf of Initech LLC.",
     "Initech Hiring has received your resume.\nBest, the team at Initech."}

Sentences ==
    {"We are pleased to extend an offer.",
     "Unfortunately, we will pursue other candidates.",
     "We would like to schedule an interview.",
     "We received your application for the Data Analyst position at Acme Corp.",
     "Just checking in.",
     "Thank you for the update position, you applied for QA Lead at Acme.",
     "Position: IT\nLocation:  .\nSalary range: $90,000 - $110,000 per year, remote."}

\* the bodies made of at most n sentences, joined by a space
RECURSIVE BodiesOf(_)
BodiesOf(n) ==
    IF n = 0 THEN {""}
    ELSE LET shorter == BodiesOf(n - 1)
         IN  shorter \cup { IF b = "" THEN sn ELSE b \o " " \o sn :
                            b \in shorter, sn \in Sentences }

TextSubjects ==
    {"",
     "Hello",
     "Re: Senior Developer - Acme",
     "Application: Data Analyst at Initech",
     "Job offer and phone screen",
     "Unknown Position at Acme",
     "Status of your application for it"}

HtmlBodies ==
    {Null,
     Some("<a href=\"https://boards.greenhouse.io/acme\">View</a> or https://acme.com/careers/42"),
     Some("Apply: https://acme.com/x/apply/42 or https://boards.greenhouse.io/acme"),
     Some("")}

Dates ==
    {"2024-01-01T00:00:00Z",
     "2024-01-01T00:00:00.000Z",
     "2024-02-25T12:00:00.000Z",
     "2024-12-31T23:59:59.000Z",
     "2024-10-30T23:30:00.000Z",
     "2024-11-02T23:30:00.000Z",
     "2024-03-09T07:30:00.000Z",
     "",
     "not a date",
     "2024-13-01T00:00:00Z"}

DefaultDate == "2024-01-01T00:00:00.000Z"

Mail(from, subject, body, htmlBody, date) ==
    [id |-> "m1", threadId |-> "t1", from |-> from, subject |-> subject,
     date |-> date, body |-> body, htmlBody |-> htmlBody]

\* e-mails that vary the sender, the subject and the body
CompanyEmails ==
    { Mail(f, sj, b, Null, DefaultDate) :
        f \in Froms, sj \in CompanySubjects, b \in CompanyBodies }
\* e-mails that vary the subject, over the bodies of at most one sentence
SubjectEmails ==
    { Mail("Jane Doe <jane@gmail.com>", sj, b, Null, DefaultDate) :
        sj \in TextSubjects, b \in BodiesOf(1) }
\* e-mails that vary the sentences of the body
TextEmails ==
    { Mail("Jane Doe <jane@gmail.com>", "Hello", b, Null, DefaultDate) :
        b \in BodiesOf(MaxBodyParts) }
\* e-mails that vary the HTML body
HtmlEmails ==
    { Mail("no-reply@greenhouse.io", "Hello", b, h, DefaultDate) :
        b \in {"", "Apply at https://jobs.lever.co/acme today."}, h \in HtmlBodies }
\* e-mails that vary the date
DateEmails ==
    { Mail("Acme Corp <hr@acme.com>", "Thank you for applying", "", Null, d) :
        d \in Dates }

\* job titles of length 2, 3, 99, 100 and 101
Titles ==
    {"QA", "SRE",
     "Senior " \o Repeat("a", 92),
     "Senior " \o Repeat("a", 93),
     "Senior " \o Repeat("a", 94)}
\* e-mails that vary the length of the title a body or subject template captures
TitleEmails ==
    { Mail("Jane Doe <jane@gmail.com>", "Hello", "Position: " \o t \o ".", Null,
           DefaultDate) : t \in Titles }
    \cup { Mail("Jane Doe <jane@gmail.com>", "Application: " \o t \o " at Acme", "",
               Null, DefaultDate) : t \in Titles }

\* the first BodyScanLimit characters of a long body: filler, then the start
\* of a sentence
LongHeads ==
    { Repeat("x", BodyScanLimit - Len(st)) \o st :
        st \in {"", " We received your application for the Data"} }
\* what follows them
LongTails ==
    {"",
     " Analyst position at Acme Corp.",
     " Salary: $90,000 - $110,000 per year, remote. We are pleased to extend an offer at Globex Inc. See https://acme.com/careers/42"}
\* e-mails whose plain body is longer than the scanned prefix
LongEmails ==
    { Mail("no-reply@greenhouse.io", "Hello", h \o t, Null, DefaultDate) :
        h \in LongHeads, t \in LongTails }

\* rejections sent through an ATS that also mention an interview or an offer
MixedRejectionEmails ==
    { Mail("Careers <jobs@us.greenhouse.io>", "Update on your application - Acme Corp",
           b, Null, DefaultDate) :
        b \in {"Thank you for the phone screen. Unfortunately, we have decided to move forward with other candidates for the Data Analyst role at Acme Corp.",
               "Unfortunately, we have decided to move forward with other candidates for the Data Analyst role at Acme Corp. after the job offer was accepted."} }

Emails ==
    MixedRejectionEmails \cup CompanyEmails \cup SubjectEmails \cup TextEmails \cup HtmlEmails \cup DateEmails
        \cup TitleEmails \cup LongEmails

\* ------------------------------------------------------------------------
\* The state machine: one call of an exported function on the e-mail
\* ------------------------------------------------------------------------
NoApplication == [threw |-> FALSE, none |-> TRUE]

\* what createOrUpdateApplication did, before it has been called
NoWrite == [kind |-> "none"]

\* the database is empty
NothingStored == database = <<>>

\* processNewEmails has not run
NotRunning ==
    /\ state = ""
    /\ fetch = "none"
    /\ emails = <<>>
    /\ cursor = 0
    /\ processedIds = <<>>
    /\ latestTimestamp = ""
    /\ outcome = <<>>
    /\ handed = <<>>
    /\ lastWrite = NoWrite
    /\ labelled = Null
    /\ saved = "none"
    /\ runs = 0

Init ==
    /\ email \in Emails
    /\ tz \in (IF email \in DateEmails THEN TimeZones ELSE {UTC})
    /\ pc = "ready"
    /\ category = ""
    /\ processable = FALSE
    /\ application = NoApplication
    /\ lastIndex = InitialLastIndex
    /\ trace = <<>>
    /\ stateFile = Null
    /\ NothingStored
    /\ NotRunning

ClassifyEmail ==
    /\ pc = "ready"
    /\ category' = classifyEmail(email)
    /\ pc' = "classifyEmail"
    /\ UNCHANGED <<email, tz, processable, application>>
    /\ UNCHANGED <<callVars, storeVars, runVars>>

ShouldProcess ==
    /\ pc = "ready"
    /\ processable' = shouldProcess(email)
    /\ pc' = "shouldProcess"
    /\ UNCHANGED <<email, tz, category, application>>
    /\ UNCHANGED <<callVars, storeVars, runVars>>

\* The categories parseJobApplication is called with: the scheduler passes
\* the one classifyEmail returned; the e-mails that vary the date are parsed
\* under every category.
ParseCategories(mail) ==
    IF mail \in DateEmails THEN Categories ELSE {classifyEmail(mail)}

ParseJobApplication ==
    /\ pc = "ready"
    /\ \E fields \in {ExtractedFields(email)} :
          \E cat \in ParseCategories(email) :
             /\ category' = cat
             /\ application' = BuildApplication(email, cat, fields)
    /\ pc' = "parseJobApplication"
    /\ UNCHANGED <<email, tz, processable>>
    /\ UNCHANGED <<callVars, storeVars, runVars>>

Next == ClassifyEmail \/ ShouldProcess \/ ParseJobApplication

Spec == Init /\ [][Next]_vars

\* ------------------------------------------------------------------------
\* A process that calls classifyEmail and parseJobApplication again and
\* again, on any of a few e-mails and in any order
\* ------------------------------------------------------------------------
\* number of calls made, at most
MaxCalls == 3

CallEmails ==
    { Mail("Acme Corp <hr@acme.com>", "Thank you for applying", b, Null, DefaultDate) :
        b \in {"We are pleased to extend an offer. Unfortunately, we will pursue other candidates.",
               "We received your application for the Data Analyst position at Acme Corp.",
               "Just checking in."} }
CallCategories == {"application_confirmation", "rejection"}

CallsInit ==
    /\ email = Mail("", "", "", Null, DefaultDate)
    /\ tz \in TimeZones
    /\ pc = "ready"
    /\ category = ""
    /\ processable = FALSE
    /\ application = NoApplication
    /\ lastIndex = InitialLastIndex
    /\ trace = <<>>
    /\ stateFile = Null
    /\ NothingStored
    /\ NotRunning

CallClassifyEmail ==
    /\ Len(trace) < MaxCalls
    /\ \E mail \in CallEmails :
          \E result \in {classifyEmailWith(lastIndex, mail)} :
             /\ email' = mail
             /\ category' = result.category
             /\ lastIndex' = result.lastIndex
             /\ trace' = Append(trace, [fn |-> "classifyEmail", email |-> mail,
                                        category |-> "", out |-> result.category])
    /\ pc' = "classifyEmail"
    /\ UNCHANGED <<tz, processable, application, storeVars, runVars>>

CallParseJobApplication ==
    /\ Len(trace) < MaxCalls
    /\ \E mail \in CallEmails, cat \in CallCategories :
          \E result \in {parseJobApplication(mail, cat)} :
             /\ email' = mail
             /\ category' = cat
             /\ application' = result
             /\ trace' = Append(trace, [fn |-> "parseJobApplication", email |-> mail,
                                        category |-> cat, out |-> result])
    /\ pc' = "parseJobApplication"
    /\ UNCHANGED <<tz, processable, lastIndex, storeVars, runVars>>

CallsNext == CallClassifyEmail \/ CallParseJobApplication

CallsSpec == CallsInit /\ [][CallsNext]_vars

\* ------------------------------------------------------------------------
\* Persistence: the pages of the Notion database
\* ------------------------------------------------------------------------
\* buildProperties: the properties of a page; an optional property is present
\* only when the field of the record is truthy
buildProperties(app) ==
    [Company |-> app.company,
     Position |-> app.position,
     DateApplied |-> app.dateApplied,
     Status |-> app.status,
     SourceEmail |-> sliceTo(app.sourceEmail, 2000),
     SalaryRange |-> OrUndefined(app.salaryRange),
     Location |-> OrUndefined(app.location),
     JobLink |-> OrUndefined(app.jobLink),
     EmailThread |-> OrUndefined(Some(app.emailThreadLink)),
     FollowUpDate |-> OrUndefined(app.followUpDate),
     Notes |-> OrUndefined(Some(app.notes))]

\* the declared order of the statuses, which updateApplication does not use
statusOrder == <<"Applied", "Phone Screen", "Interview", "Technical", "Offer", "Rejected">>

\* A variant of the update that keeps the stored status unless the new one
\* comes later in statusOrder.
ProgressedStatus(stored, new) ==
    LET rank(st) == IF \E j \in 1..Len(statusOrder) : statusOrder[j] = st
                    THEN CHOOSE j \in 1..Len(statusOrder) : statusOrder[j] = st
                    ELSE 0
    IN  IF rank(new) > rank(stored) THEN new ELSE stored

\* the status notion.pages.update writes: the one of the new record
UpdatedStatus(stored, new) == new

\* A faulty variant of the update: every property of the new record is sent.
UpdatedPageAll(page, app) == buildProperties(app)

\* the page after notion.pages.update with the properties updateApplication
\* sends: a property that is undefined is not sent and keeps its value
UpdatedPage(page, app) ==
    LET properties == buildProperties(app)
    IN  [page EXCEPT
            !.Status = UpdatedStatus(@, properties.Status),
            !.Notes = IF properties.Notes # Null THEN properties.Notes ELSE @,
            !.FollowUpDate = IF Truthy(app.followUpDate) THEN properties.FollowUpDate ELSE @,
            !.SalaryRange = IF Truthy(app.salaryRange) THEN properties.SalaryRange ELSE @,
            !.Location = IF Truthy(app.location) THEN properties.Location ELSE @]

\* A variant of findExisting whose query never fails.
findExistingReliable(db, company, position) ==
    LET results == { i \in 1..Len(db) :
                       db[i].Company = company /\ db[i].Position = position }
    IN  IF results = {} THEN {0} ELSE results

\* findExisting: the pages the query returns first, as indexes; 0 stands for
\* null, which is also the result when the query fails
findExisting(db, company, position) ==
    LET results == { i \in 1..Len(db) :
                       db[i].Company = company /\ db[i].Position = position }
    IN  {0} \cup results

\* The ways createOrUpdateApplication can end on the database db: the lookup
\* returns a page or null, and the request that follows succeeds or throws.
createOrUpdateApplication(db, app) ==
    UNION { IF existing = 0
            THEN { [threw |-> FALSE, kind |-> "create", page |-> Len(db) + 1,
                    database |-> Append(db, buildProperties(app))],
                   [threw |-> TRUE, kind |-> "create", page |-> 0, database |-> db] }
            ELSE { [threw |-> FALSE, kind |-> "update", page |-> existing,
                    database |-> [db EXCEPT ![existing] = UpdatedPage(@, app)]],
                   [threw |-> TRUE, kind |-> "update", page |-> existing, database |-> db] }
          : existing \in findExisting(db, app.company, app.position) }

\* ------------------------------------------------------------------------
\* The scheduler: runs of processNewEmails, one after the other
\* ------------------------------------------------------------------------
\* number of runs of processNewEmails, at most
MaxRuns == 2

\* the characters of a timestamp of toISOString, in the order of their codes
TimestampChars == "+-.0123456789:TZ"
CodeOf(ch) == CHOOSE i \in 1..Len(TimestampChars) : SubSeq(TimestampChars, i, i) = ch

\* a > b on timestamps: the order of the codes at the first difference
StringGreater(a, b) ==
    LET differ == { i \in 1..MinOf({Len(a), Len(b)}) : SubSeq(a, i, i) # SubSeq(b, i, i) }
    IN  IF differ = {} THEN Len(a) > Len(b)
        ELSE CodeOf(SubSeq(a, MinOf(differ), MinOf(differ)))
                 > CodeOf(SubSeq(b, MinOf(differ), MinOf(differ)))

\* the e-mail with another id and thread
MailWithId(id, mail) == [mail EXCEPT !.id = id, !.threadId = "t-" \o id]

\* The messages of the mailbox that match the queries, newest first: a
\* confirmation, an invitation to an interview and a later note on the same
\* application, and a message that no rule classifies.
Mailbox == <<
    MailWithId("m4", Mail("Acme Corp <hr@acme.com>", "Thank you for applying",
        "We received your application for the Data Analyst position at Acme Corp. The role is remote.",
        Null, "2024-01-04T09:00:00.000Z")),
    MailWithId("m3", Mail("Jane Doe <jane@gmail.com>", "Next steps", "See you on Monday.",
        Null, "2024-01-03T09:00:00.000Z")),
    MailWithId("m2", Mail("Acme Corp <hr@acme.com>", "Interview",
        "We would like to schedule an interview for the Data Analyst position at Acme Corp.",
        Null, "2024-01-02T09:00:00.000Z")),
    MailWithId("m1", Mail("Acme Corp <hr@acme.com>", "Thank you for applying",
        "We received your application for the Data Analyst position at Acme Corp.",
        Null, "2024-01-01T09:00:00.000Z")) >>

\* the default of loadState and a state file written by an earlier run
Lookback == "2023-12-25T09:00:00.000Z"
StateFiles == {Null, Some("2024-01-02T09:00:00.000Z")}

\* loadState: the saved state; the default when there is no state file, and
\* also when reading or parsing the file fails
loadState(file) == IF file = Null THEN {Lookback} ELSE {Val(file), Lookback}

\* The messages the query "after:<seconds>" returns.  A message dated at the
\* very second of the timestamp may or may not be among them.
FetchedEmails(afterTimestamp, atBoundary) ==
    LET after == Val(DateParse(afterTimestamp))
        found == { i \in 1..Len(Mailbox) :
                     \/ Val(DateParse(Mailbox[i].date)) > after
                     \/ atBoundary /\ Val(DateParse(Mailbox[i].date)) = after }
        nth(k) == CHOOSE i \in found : Cardinality({ j \in found : j < i }) = k - 1
    IN  [k \in 1..Cardinality(found) |-> Mailbox[nth(k)]]

\* A faulty variant of shouldProcess: every e-mail is processed.
shouldProcessAlways(classified) ==
    [result |-> TRUE, lastIndex |-> classified.lastIndex]

\* shouldProcess called when the expressions have the lastIndex values li
shouldProcessResult(classified) ==
    [result |-> IF classified.category = "unknown" THEN FALSE ELSE TRUE,
     lastIndex |-> classified.lastIndex]
shouldProcessWith(li, mail) == shouldProcessResult(classifyEmailWith(li, mail))

\* A faulty variant: the date of the last stored e-mail becomes the watermark.
LastTimestamp(latest, date) == date

\* if (email.date > latestTimestamp) latestTimestamp = email.date
LaterTimestamp(latest, date) == IF StringGreater(date, latest) THEN date ELSE latest

SchedulerInit ==
    /\ email = Mail("", "", "", Null, DefaultDate)
    /\ tz = UTC
    /\ pc = "idle"
    /\ category = ""
    /\ processable = FALSE
    /\ application = NoApplication
    /\ lastIndex = InitialLastIndex
    /\ trace = <<>>
    /\ stateFile \in StateFiles
    /\ NothingStored
    /\ NotRunning

\* processNewEmails up to the loop: the state is loaded and the e-mails are
\* fetched; the run ends here when the fetch fails or returns nothing
FetchEmails ==
    /\ pc = "idle"
    /\ runs < MaxRuns
    /\ runs' = runs + 1
    /\ state' \in loadState(stateFile)
    /\ processedIds' = <<>>
    /\ latestTimestamp' = state'
    /\ outcome' = <<>>
    /\ handed' = <<>>
    /\ labelled' = Null
    /\ saved' = "none"
    /\ \/ /\ fetch' = "failed"
          /\ emails' = <<>>
          /\ cursor' = 0
          /\ pc' = "idle"
       \/ \E atBoundary \in BOOLEAN :
             /\ emails' = FetchedEmails(state', atBoundary)
             /\ fetch' = IF Len(emails') = 0 THEN "empty" ELSE "fetched"
             /\ cursor' = IF Len(emails') = 0 THEN 0 ELSE 1
             /\ pc' = IF Len(emails') = 0 THEN "idle" ELSE "loop"
    /\ UNCHANGED <<email, tz, category, processable, application, callVars,
                   storeVars, lastWrite>>

\* one pass of the loop over an e-mail that shouldProcess rejects
SkipEmail ==
    /\ pc = "loop"
    /\ cursor <= Len(emails)
    /\ \E gate \in {shouldProcessWith(lastIndex, emails[cursor])} :
          /\ ~gate.result
          /\ lastIndex' = gate.lastIndex
    /\ email' = emails[cursor]
    /\ processable' = FALSE
    /\ outcome' = Append(outcome, [id |-> emails[cursor].id, how |-> "skipped"])
    /\ cursor' = cursor + 1
    /\ UNCHANGED <<tz, pc, category, application, trace, storeVars, state, fetch,
                   emails, processedIds, latestTimestamp, handed, lastWrite,
                   labelled, saved, runs>>

\* the record and the category of an e-mail that shouldProcess accepts
Classified(li, mail) ==
    With(shouldProcessWith(li, mail), LAMBDA gate :
    With(classifyEmailWith(gate.lastIndex, mail), LAMBDA classified :
        [processable |-> gate.result,
         category |-> classified.category,
         lastIndex |-> classified.lastIndex,
         application |-> IF gate.result
                         THEN parseJobApplication(mail, classified.category)
                         ELSE NoApplication]))

\* A faulty variant: the id is pushed whether or not the call threw.
PushProcessedAlways(ids, id, threw) == Append(ids, id)

\* processedIds.push(email.id), which an error in createOrUpdateApplication skips
PushProcessed(ids, id, threw) == IF threw THEN ids ELSE Append(ids, id)

\* one pass of the loop over an e-mail that shouldProcess accepts: it is
\* classified, parsed and handed to createOrUpdateApplication, which succeeds
\* or throws
ProcessEmail ==
    /\ pc = "loop"
    /\ cursor <= Len(emails)
    /\ \E step \in {Classified(lastIndex, emails[cursor])} :
          /\ step.processable
          /\ ~step.application.threw
          /\ lastIndex' = step.lastIndex
          /\ category' = step.category
          /\ application' = step.application
          /\ handed' = Append(handed, [id |-> emails[cursor].id,
                                       category |-> step.category,
                                       application |-> step.application])
          /\ \E result \in createOrUpdateApplication(database, step.application) :
                /\ database' = result.database
                /\ lastWrite' = [kind |-> result.kind, threw |-> result.threw,
                                 page |-> result.page, before |-> database,
                                 application |-> step.application]
                /\ processedIds' = PushProcessed(processedIds, emails[cursor].id,
                                                 result.threw)
                /\ latestTimestamp' =
                       IF result.threw THEN latestTimestamp
                       ELSE LaterTimestamp(latestTimestamp, emails[cursor].date)
                /\ outcome' = Append(outcome,
                                     [id |-> emails[cursor].id,
                                      how |-> IF result.threw THEN "failed" ELSE "stored"])
    /\ email' = emails[cursor]
    /\ processable' = TRUE
    /\ cursor' = cursor + 1
    /\ UNCHANGED <<tz, pc, trace, stateFile, state, fetch, emails, labelled, saved, runs>>

\* saveState: the file is written, or the write fails and the error is logged
saveState(file, timestamp) == { [how |-> "written", file |-> Some(timestamp)],
                                [how |-> "failed", file |-> file] }

\* processNewEmails after the loop: the processed ids are passed to
\* labelAsProcessed, whose failure is logged, and the state is saved
FinishRun ==
    /\ pc = "loop"
    /\ cursor > Len(emails)
    /\ labelled' = Some(processedIds)
    /\ \E write \in saveState(stateFile, latestTimestamp) :
          /\ stateFile' = write.file
          /\ saved' = write.how
    /\ pc' = "idle"
    /\ UNCHANGED <<email, tz, category, processable, application, callVars, database,
                   state, fetch, emails, cursor, processedIds, latestTimestamp,
                   outcome, handed, lastWrite, runs>>

SchedulerNext == FetchEmails \/ SkipEmail \/ ProcessEmail \/ FinishRun

SchedulerSpec == SchedulerInit /\ [][SchedulerNext]_vars

\* ------------------------------------------------------------------------
\* Properties
\* ------------------------------------------------------------------------
\* the text classifyEmail reads
ClassifiedText(mail) == Txt(mail.subject \o " " \o mail.body)

\* does some pattern of the group of category c match the text?
CategoryMatches(c, txt) ==
    \E g \in 1..Len(CATEGORY_PATTERNS) :
        /\ CATEGORY_PATTERNS[g].category = c
        /\ SomePatternMatches(CATEGORY_PATTERNS[g].patterns, txt)

GroupOrder ==
    <<"offer", "interview_invitation", "rejection", "application_confirmation",
      "follow_up">>

\* C1: classifyEmail returns the category of the first group, in the order
\* offer, interview_invitation, rejection, application_confirmation,
\* follow_up, with a pattern matching "subject body"; it returns unknown
\* exactly when no group has one.
C1_FirstMatchingGroupWins ==
    pc = "classifyEmail" =>
        LET txt == ClassifiedText(email)
            matching == { j \in 1..Len(GroupOrder) : CategoryMatches(GroupOrder[j], txt) }
        IN  /\ (matching = {}) <=> (category = "unknown")
            /\ matching # {} => category = GroupOrder[MinOf(matching)]

\* C1 witness: a text that matches an offer pattern and a rejection pattern
\* has been classified as offer.
C1_OfferBeforeRejection ==
    /\ pc = "classifyEmail"
    /\ category = "offer"
    /\ CategoryMatches("offer", ClassifiedText(email))
    /\ CategoryMatches("rejection", ClassifiedText(email))

\* C2: classifyEmail and parseJobApplication return a value for every
\* e-mail, whatever its subject, body, sender header and date are; neither
\* raises an exception.
C2_NeverRaises ==
    /\ pc = "classifyEmail" => category \in Categories
    /\ pc = "parseJobApplication" => ~application.threw

\* parseJobApplication has returned a record
Parsed == pc = "parseJobApplication" /\ ~application.threw

\* the candidate of one company strategy for the e-mail
CompanyCandidate(strategy, mail) ==
    CASE strategy = "body" -> extractCompanyFromBody(sliceTo(mail.body, BodyScanLimit))
      [] strategy = "subject" -> extractCompanyFromSubject(mail.subject)
      [] strategy = "sender-name" -> extractCompanyFromSender(mail.from)
      [] strategy = "domain" -> extractCompanyFromDomain(mail.from)

AtsOrder == <<"body", "subject", "sender-name", "domain">>
DirectOrder == <<"sender-name", "body", "subject", "domain">>

C4_CompanyLength ==
    Parsed => Len(application.company) # 1 /\ Len(application.company) < 80

StopWords ==
    {"the", "a", "an", "your", "our", "this", "that", "us", "we", "thank",
     "thanks", "hi", "hello", "dear", "application", "confirmation", "update",
     "status", "re", "fwd"}

\* C5: the company of a record never equals a stop word, whatever the case
\* of its letters.
C5_CompanyNotStopWord ==
    Parsed => toLowerCase(application.company) \notin StopWords

\* the calendar date n days after the date of the time stamp
CalendarDatePlus(date, n) == IsoDate(Val(DateParse(date)) + n * SecondsPerDay)

\* C6: the follow-up date depends on the category and the date of the e-mail
\* only: the date plus 7 calendar days for application_confirmation, plus 1
\* for interview_invitation, absent for every other category.
C6_FollowUpDate ==
    Parsed =>
        application.followUpDate =
            IF category = "application_confirmation"
            THEN Some(CalendarDatePlus(email.date, 7))
            ELSE IF category = "interview_invitation"
            THEN Some(CalendarDatePlus(email.date, 1))
            ELSE Null

StatusTable ==
    [application_confirmation |-> "Applied", rejection |-> "Rejected",
     interview_invitation |-> "Interview", offer |-> "Offer",
     follow_up |-> "Applied", unknown |-> "Applied"]

\* C7: the status of a record is given by the category alone, as in the
\* table; every category has a status.
C7_StatusTable ==
    Parsed =>
        /\ category \in DOMAIN StatusTable
        /\ application.status = StatusTable[category]

\* C7 witness: an e-mail parsed as follow_up has the status Applied.
C7_FollowUpIsApplied ==
    Parsed /\ category = "follow_up" /\ application.status = "Applied"

\* C8: shouldProcess is true exactly when classifyEmail does not return
\* unknown.
C8_ShouldProcess ==
    pc = "shouldProcess" =>
        (processable <=> ~(classifyEmail(email) = "unknown"))

\* C8 witness: shouldProcess has returned true for a follow-up e-mail.
C8_FollowUpProcessed ==
    pc = "shouldProcess" /\ processable /\ classifyEmail(email) = "follow_up"

FirstValidCapture(patterns, str) ==
    LET txt == Txt(str)
        capture(j) == trim(Match1(str, RxSearch(patterns[j], txt)))
        valid == { j \in 1..Len(patterns) :
                     RxSearch(patterns[j], txt).ok /\ isValidPosition(capture(j)) }
    IN  IF valid = {} THEN Null ELSE Some(capture(MinOf(valid)))

\* the cleaned subject, when the fallback accepts it
FallbackCandidate(subject) ==
    LET text == cleanedSubject(subject)
    IN  IF text # "" /\ RxTest(JOB_TITLE_KEYWORDS, text) /\ ~RxTest(NOT_A_POSITION, text)
        THEN Some(text) ELSE Null

C11_PositionLength ==
    Parsed =>
        LET fromBody == extractPositionFromBody(sliceTo(email.body, BodyScanLimit))
            fromSubject == extractPositionFromSubject(email.subject)
        IN  (Truthy(fromBody) \/ Truthy(fromSubject)) =>
                Len(application.position) >= 3 /\ Len(application.position) < 100

\* the same with the upper limit the code applies: at most 100
C11_PositionLengthAtMost100 ==
    Parsed =>
        LET fromBody == extractPositionFromBody(sliceTo(email.body, BodyScanLimit))
            fromSubject == extractPositionFromSubject(email.subject)
        IN  (Truthy(fromBody) \/ Truthy(fromSubject)) =>
                Len(application.position) >= 3 /\ Len(application.position) <= 100

\* the address of a From header: the text between the last "<" and the ">"
\* after it, or the whole header when it has no brackets
AddressOf(from) ==
    LET opens == { i \in 1..Len(from) : SubSeq(from, i, i) = "<" }
        start == IF opens = {} THEN 1 ELSE MaxOf(opens) + 1
        closes == { i \in start..Len(from) : SubSeq(from, i, i) = ">" }
        end == IF closes = {} THEN Len(from) ELSE MinOf(closes) - 1
    IN  trim(SubSeq(from, start, end))

\* the domain of the address: the text after its last "@", in lower case
AddressDomain(from) ==
    LET addr == AddressOf(from)
        ats == { i \in 1..Len(addr) : SubSeq(addr, i, i) = "@" }
    IN  IF ats = {} THEN "" ELSE toLowerCase(SubSeq(addr, MaxOf(ats) + 1, Len(addr)))

\* the address is on a known ATS domain or on a subdomain of one
AddressOnAtsDomain(from) ==
    LET d == AddressDomain(from)
    IN  \E j \in 1..Len(ATS_DOMAINS) :
            \/ d = ATS_DOMAINS[j]
            \/ /\ Len(d) > Len(ATS_DOMAINS[j])
               /\ SubSeq(d, Len(d) - Len(ATS_DOMAINS[j]), Len(d)) = "." \o ATS_DOMAINS[j]

\* C12: the company is resolved in the ATS order (body, subject, sender-name,
\* domain) exactly when the address of the sender is on a known ATS domain,
\* and in the non-ATS order (sender-name first) otherwise, also when an ATS
\* domain name occurs elsewhere in the From header.
C12_AtsDispatchByAddress ==
    Parsed =>
        LET order == IF AddressOnAtsDomain(email.from) THEN AtsOrder ELSE DirectOrder
            yielding == { j \in 1..4 : Truthy(CompanyCandidate(order[j], email)) }
        IN  application.company =
                IF yielding = {} THEN "Unknown Company"
                ELSE Val(CompanyCandidate(order[MinOf(yielding)], email))

\* the two e-mails are equal in every field except the plain body after its
\* first BodyScanLimit characters
EqualUpToScanLimit(a, b) ==
    /\ [a EXCEPT !.body = ""] = [b EXCEPT !.body = ""]
    /\ SubSeq(a.body, 1, MinOf({Len(a.body), BodyScanLimit}))
           = SubSeq(b.body, 1, MinOf({Len(b.body), BodyScanLimit}))

\* C13: an e-mail that is equal to the parsed one in every field except the
\* plain body after its first 3000 characters yields, for the same category,
\* the record the parsed one yielded.
C13_BodyPrefixOnly ==
    Parsed =>
        \A other \in LongEmails :
            EqualUpToScanLimit(email, other) =>
                parseJobApplication(other, category) = application

\* C13 witness: the parsed e-mail has text after the first 3000 characters
\* that the extraction would read fields off, another e-mail differs from it
\* there only, and both yield the same record.
C13_LongBodiesAgree ==
    /\ Parsed
    /\ Len(email.body) > BodyScanLimit
    /\ ExtractedFieldsWholeBody(email) # ExtractedFields(email)
    /\ \E other \in LongEmails :
          /\ other # email
          /\ EqualUpToScanLimit(email, other)
          /\ ExtractedFieldsWholeBody(other) # ExtractedFieldsWholeBody(email)
          /\ parseJobApplication(other, category) = application

\* the tokens of a job URL and the names of the ATS platforms
LinkTokens == {"job", "career", "position", "apply", "opening"}
AtsNames ==
    {"greenhouse", "lever", "workday", "icims", "smartrecruiters", "ashbyhq",
     "jobvite", "bamboohr"}

\* The URLs of a text in lower case, as <<first, last>> index pairs: a
\* scheme http:// or https:// and the longest run of URL characters after it.
UrlsIn(lower) ==
    LET n == Len(lower)
        after(i) == IF i + 6 <= n /\ SubSeq(lower, i, i + 6) = "http://" THEN i + 7
                    ELSE IF i + 7 <= n /\ SubSeq(lower, i, i + 7) = "https://" THEN i + 8
                    ELSE 0
        stop(a) == MinOf({ j \in a..(n + 1) :
                             j = n + 1 \/ SubSeq(lower, j, j) \notin UrlChars })
    IN  { <<i, stop(after(i)) - 1>> : i \in { q \in 1..n : after(q) # 0 } }

\* the text of the URL after its scheme
UrlRest(lower, u) ==
    LET a == IF SubSeq(lower, u[1], u[1] + 4) = "https" THEN u[1] + 8 ELSE u[1] + 7
    IN  SubSeq(lower, a, u[2])

\* the host of the URL: up to the first character that is not of a host name
UrlHost(lower, u) ==
    LET rest == UrlRest(lower, u)
        ends == { j \in 1..Len(rest) : SubSeq(rest, j, j) \notin (HostChars \cup {"."}) }
    IN  IF ends = {} THEN rest ELSE SubSeq(rest, 1, MinOf(ends) - 1)

\* the URL contains one of the tokens
IsTokenUrl(lower, u) == \E t \in LinkTokens : includes(UrlRest(lower, u), t)

\* the URL is on an ATS domain: a label of its host is the name of a platform
IsAtsUrl(lower, u) ==
    LET host == "." \o UrlHost(lower, u) \o "."
    IN  \E a \in AtsNames : includes(host, "." \o a \o ".")

\* the leftmost of a non-empty set of URLs of the text
LeftmostUrl(text, urls) ==
    LET first == MinOf({ u[1] : u \in urls })
        u == CHOOSE v \in urls : v[1] = first
    IN  SubSeq(text, u[1], u[2])

\* the job link the text holds: the leftmost token URL, else the leftmost
\* URL on an ATS domain, else none
JobLinkOf(text, lower) ==
    LET urls == UrlsIn(lower)
        tokenUrls == { u \in urls : IsTokenUrl(lower, u) }
        atsUrls == { u \in urls : IsAtsUrl(lower, u) }
    IN  IF tokenUrls # {} THEN Some(LeftmostUrl(text, tokenUrls))
        ELSE IF atsUrls # {} THEN Some(LeftmostUrl(text, atsUrls))
        ELSE Null

\* the text the job link is searched in
LinkText(mail) ==
    IF Truthy(mail.htmlBody) THEN Val(mail.htmlBody)
    ELSE sliceTo(mail.body, BodyScanLimit)

\* C14: the job link is searched in the HTML body when there is one and in
\* the plain body otherwise; it is the leftmost URL containing one of the
\* tokens job, career, position, apply, opening when there is one, also when
\* an ATS URL stands before it, else the leftmost URL on an ATS domain, and
\* absent when there is neither.
C14_JobLink ==
    Parsed =>
        application.jobLink = JobLinkOf(LinkText(email), toLowerCase(LinkText(email)))

\* the same up to the end of the URL: the job link is absent when the text
\* holds no such URL and is otherwise a prefix of it
C14_JobLinkPrefix ==
    Parsed =>
        LET expected == JobLinkOf(LinkText(email), toLowerCase(LinkText(email)))
            link == application.jobLink
        IN  /\ Truthy(link) <=> Truthy(expected)
            /\ Truthy(link) =>
                  /\ Len(Val(link)) <= Len(Val(expected))
                  /\ Val(link) = SubSeq(Val(expected), 1, Len(Val(link)))

\* the two calls are calls of the same function on the same input
SameCall(a, b) == a.fn = b.fn /\ a.email = b.email /\ a.category = b.category

GenericDisplayName(from) ==
    LET nameMatch == RxExec(SENDER_NAME, from)
    IN  nameMatch.ok /\ RxTest(GENERIC_SENDER_NAMES, trim(Match1(from, nameMatch)))

\* the address of the sender is on greenhouse.io
OnGreenhouse(from) ==
    LET d == AddressDomain(from)
    IN  d = "greenhouse.io"
            \/ (Len(d) > 14 /\ SubSeq(d, Len(d) - 13, Len(d)) = ".greenhouse.io")

\* An e-mail from a greenhouse.io address with a generic display name, a
\* rejection phrase in the body and a body template that yields the company.
AtsRejectionMail(mail) ==
    /\ OnGreenhouse(mail.from)
    /\ GenericDisplayName(mail.from)
    /\ CategoryMatches("rejection", Txt(mail.body))
    /\ Truthy(extractCompanyFromBody(sliceTo(mail.body, BodyScanLimit)))

\* no phrase of the groups that come before rejection, offer and interview
\* invitation, is in the subject or the body
NoEarlierPhrase(mail) ==
    /\ ~CategoryMatches("offer", ClassifiedText(mail))
    /\ ~CategoryMatches("interview_invitation", ClassifiedText(mail))

\* what the record of such an e-mail is: category rejection, the company of
\* the body strategy, status Rejected, no follow-up date
AtsRejectionRecord ==
    /\ category = "rejection"
    /\ application.company =
           Val(extractCompanyFromBody(sliceTo(email.body, BodyScanLimit)))
    /\ application.status = "Rejected"
    /\ application.followUpDate = Null

\* C16 as stated: an e-mail from a greenhouse.io address with a generic
\* display name, a rejection phrase in the body and a body template that
\* yields the company is classified as rejection, has the company of the body
\* strategy with the legal suffix stripped, status Rejected and no follow-up
\* date.
C16_AtsRejection ==
    (Parsed /\ AtsRejectionMail(email)) => AtsRejectionRecord

\* C16 amended: the same for an e-mail with no offer or interview phrase in
\* its subject or body.
C16_AtsRejectionNoEarlierPhrase ==
    (Parsed /\ AtsRejectionMail(email) /\ NoEarlierPhrase(email)) => AtsRejectionRecord

\* C16 witness: such an e-mail whose body names Acme Corp. has the record of
\* a rejection with the company Acme.
C16_GreenhouseRejection ==
    /\ Parsed
    /\ AtsRejectionMail(email)
    /\ NoEarlierPhrase(email)
    /\ includes(email.body, "Acme Corp.")
    /\ AtsRejectionRecord
    /\ application.company = "Acme"

\* the place of a status in statusOrder
StatusRank(status) == CHOOSE j \in 1..Len(statusOrder) : statusOrder[j] = status

\* createOrUpdateApplication has just updated a page
Updated == lastWrite.kind = "update" /\ ~lastWrite.threw

\* C17: when createOrUpdateApplication updates an entry, the stored status
\* stays as it is or moves forward in the order Applied, Phone Screen,
\* Interview, Technical, Offer, Rejected; it never moves back.
C17_NoDowngrade ==
    Updated =>
        LET stored == lastWrite.before[lastWrite.page].Status
            now == database[lastWrite.page].Status
        IN  now = stored \/ StatusRank(now) > StatusRank(stored)

\* an update has moved the status of an entry forward
C17_UpdateProgressed ==
    /\ Updated
    /\ StatusRank(database[lastWrite.page].Status)
           > StatusRank(lastWrite.before[lastWrite.page].Status)

\* the entries of handed and the ids of processedIds, as sets
HandedIds == { handed[k].id : k \in 1..Len(handed) }
ProcessedIdSet == { processedIds[k] : k \in 1..Len(processedIds) }

\* what C18 says of the e-mail the loop has just passed, given the category
\* classifyEmail returns for it
LastPassOk(mail, how, cat) ==
    IF cat = "unknown" THEN how = "skipped"
    ELSE how # "skipped" =>
            /\ handed[Len(handed)].id = mail.id
            /\ handed[Len(handed)].category = cat
            /\ handed[Len(handed)].application = parseJobApplication(mail, cat)

\* C18: in a run of processNewEmails an e-mail that classifyEmail classifies
\* as unknown is skipped: it is not parsed, not handed to
\* createOrUpdateApplication and its id is not among the processed ids; and
\* every record handed to createOrUpdateApplication was built by
\* parseJobApplication with the category classifyEmail returns for the
\* e-mail.  Every e-mail of the run is, right after its pass of the loop, the
\* last entry of outcome, and it is classified then.
C18_UnknownSkipped ==
    /\ \A k \in 1..Len(outcome) :
          outcome[k].how = "skipped" =>
              /\ emails[k].id \notin HandedIds
              /\ emails[k].id \notin ProcessedIdSet
    /\ \A h \in 1..Len(handed) :
          \E k \in 1..Len(outcome) :
              emails[k].id = handed[h].id /\ outcome[k].how # "skipped"
    /\ (pc = "loop" /\ Len(outcome) > 0) =>
          LastPassOk(emails[Len(outcome)], outcome[Len(outcome)].how,
                     classifyEmail(emails[Len(outcome)]))

\* C18 witness: a run has ended in which an unknown e-mail was skipped and
\* other e-mails were handed to createOrUpdateApplication.
C18_RunWithUnknown ==
    /\ pc = "idle"
    /\ labelled # Null
    /\ \E k \in 1..Len(outcome) :
          outcome[k].how = "skipped" /\ classifyEmail(emails[k]) = "unknown"
    /\ Len(handed) >= 2

\* the ids of the fetched e-mails whose pass of the loop ended in the given way
IdsThat(how) == { emails[k].id : k \in { q \in 1..Len(outcome) : outcome[q].how = how } }

\* C19: the ids passed to labelAsProcessed in a run are exactly those of the
\* fetched e-mails that were not skipped as unknown and whose
\* createOrUpdateApplication call completed without error; the loop has
\* then passed every fetched e-mail, those after a failure included.
C19_LabelledAreStored ==
    labelled # Null =>
        /\ { Val(labelled)[k] : k \in 1..Len(Val(labelled)) } = IdsThat("stored")
        /\ Len(Val(labelled)) = Cardinality(IdsThat("stored"))
        /\ Len(outcome) = Len(emails)

\* C19 witness: in a run the call failed for one e-mail, a later e-mail was
\* stored, and labelAsProcessed got the ids of the stored ones.
C19_StoredAfterFailure ==
    /\ labelled # Null
    /\ \E k, j \in 1..Len(outcome) :
          k < j /\ outcome[k].how = "failed" /\ outcome[j].how = "stored"
    /\ { Val(labelled)[k] : k \in 1..Len(Val(labelled)) } = IdsThat("stored")

\* the later of two timestamps
MaxStamp(a, b) == IF StringGreater(a, b) THEN a ELSE b

\* the latest of the watermark and the dates of the first n fetched e-mails
\* that were stored
RECURSIVE StoredMax(_, _)
StoredMax(watermark, n) ==
    IF n = 0 THEN watermark
    ELSE IF outcome[n].how = "stored"
         THEN MaxStamp(StoredMax(watermark, n - 1), emails[n].date)
         ELSE StoredMax(watermark, n - 1)

\* the saved timestamp does not decrease in this step
NotDecreased ==
    stateFile # Null =>
        /\ stateFile' # Null
        /\ ~StringGreater(Val(stateFile), Val(stateFile'))

\* the step that ends a run which fetched e-mails
RunEnds == pc = "loop" /\ pc' = "idle"

\* the step of a run whose fetch failed or returned nothing
RunWithoutEmails == pc = "idle" /\ runs' = runs + 1 /\ pc' = "idle"

\* the run read its watermark from the state file, or there was no file
StateWasRead == stateFile = Null \/ state = Val(stateFile)

UpdateDone == lastWrite.kind = "update" /\ ~lastWrite.threw

\* what the update of the page old with the record app may leave in new
UpdateFrame(old, new, app) ==
    /\ new.Status = app.status
    /\ new.Notes = Some(app.notes)
    /\ new.FollowUpDate = IF Truthy(app.followUpDate) THEN app.followUpDate
                           ELSE old.FollowUpDate
    /\ new.SalaryRange = IF Truthy(app.salaryRange) THEN app.salaryRange
                          ELSE old.SalaryRange
    /\ new.Location = IF Truthy(app.location) THEN app.location ELSE old.Location
    /\ new.Company = old.Company
    /\ new.Position = old.Position
    /\ new.DateApplied = old.DateApplied
    /\ new.JobLink = old.JobLink
    /\ new.EmailThread = old.EmailThread
    /\ new.SourceEmail = old.SourceEmail

\* C21: an update of an existing entry writes Status and Notes, and Follow-up
\* Date, Salary Range and Location when the new record carries them; Company,
\* Position, Date Applied, Job Link, Email Thread and Source Email keep their
\* values, and so does a stored Follow-up Date, Salary Range or Location the
\* new record does not carry; no other entry changes.
C21_UpdateFrame ==
    UpdateDone =>
        /\ Len(database) = Len(lastWrite.before)
        /\ UpdateFrame(lastWrite.before[lastWrite.page], database[lastWrite.page],
                       lastWrite.application)
        /\ \A i \in 1..Len(database) :
              i # lastWrite.page => database[i] = lastWrite.before[i]

\* C21 witness: an update by a record without a location and with another
\* date and source e-mail changed the status of an entry and kept its
\* stored location.
C21_UpdateKeptLocation ==
    /\ UpdateDone
    /\ ~Truthy(lastWrite.application.location)
    /\ lastWrite.before[lastWrite.page].Location # Null
    /\ database[lastWrite.page].Location = lastWrite.before[lastWrite.page].Location
    /\ lastWrite.before[lastWrite.page].DateApplied # lastWrite.application.dateApplied
    /\ database[lastWrite.page].DateApplied = lastWrite.before[lastWrite.page].DateApplied
    /\ database[lastWrite.page].Status # lastWrite.before[lastWrite.page].Status

\* a run that fetched e-mails has ended and has written the state file
RunSaved == pc = "idle" /\ fetch = "fetched" /\ saved = "written"

\* C22: when createOrUpdateApplication failed for an e-mail of a run, the
\* watermark the run saves is not later than the date of that e-mail, so
\* that the query of the next run, "after" the watermark, returns it again.
C22_FailedEmailNotPassed ==
    RunSaved =>
        \A k \in 1..Len(outcome) :
            outcome[k].how = "failed" =>
                ~StringGreater(Val(stateFile), emails[k].date)

\* C23: the database holds at most one entry per (company, position) pair,
\* whatever calls of createOrUpdateApplication were made and also when a
\* lookup of the existing entry failed.
C23_OneEntryPerPair ==
    \A i, j \in 1..Len(database) :
        (database[i].Company = database[j].Company
            /\ database[i].Position = database[j].Position) => i = j

\* the body, subject and sender-name strategies all yield nothing
NoCompanyButDomain(mail) ==
    /\ ~Truthy(CompanyCandidate("body", mail))
    /\ ~Truthy(CompanyCandidate("subject", mail))
    /\ ~Truthy(CompanyCandidate("sender-name", mail))

\* C24: for a sender whose address is on a known ATS domain or a subdomain of
\* one, the company is "Unknown Company" when the body, subject and
\* sender-name strategies yield nothing: the domain strategy gives no name.
C24_NoCompanyFromAtsDomain ==
    (Parsed /\ AddressOnAtsDomain(email.from) /\ NoCompanyButDomain(email)) =>
        application.company = UnknownCompany

====
